---- MODULE Spec2Model ----
(***************************************************************************)
(* Route-comparison: the GPS validation, cleaning and smoothing pipeline   *)
(* (FileParser, Utils) and the file import handler of RouteOverlayApp.     *)
(*                                                                         *)
(* JavaScript values are tagged records, so that null, undefined, NaN, an  *)
(* Invalid Date, a number and a Date object stay distinct and the code's   *)
(* truthiness tests (!x, x && y, x ?? y) are modelled by what they do.     *)
(* Real numbers are fixed-point integers:                                  *)
(*   latitude / longitude   in 10^-5 degree                                *)
(*   distance               in millimetres                                 *)
(*   time                   in milliseconds (Date.getTime())               *)
(*   speed (km/h), pace (min/km), smoothed series   in 1/1000 unit         *)
(*   elevation              in metres                                      *)
(* and comparisons of quotients are made exactly, by cross-multiplying.    *)
(***************************************************************************)
EXTENDS Integers, Sequences, FiniteSets, TLC

VARIABLES
    pc,          \* position of the running call / handler
    args,        \* the arguments of the function under call
    ret,         \* its return value (or the error it threw)
    files,       \* handleFiles: the FileList being imported
    fileIdx,     \* handleFiles: number of files of the batch already handled
    routes,      \* RouteOverlayApp.routes
    colorIndex,  \* RouteOverlayApp.colorIndex
    alerts       \* the alert() messages shown so far

vars == <<pc, args, ret, files, fileIdx, routes, colorIndex, alerts>>
appVars == <<files, fileIdx, routes, colorIndex, alerts>>

----------------------------------------------------------------------------
(* JavaScript values *)

Null == [t |-> "null"]
Undefined == [t |-> "undefined"]
NaN == [t |-> "nan"]
Num(n) == [t |-> "num", v |-> n]
DateOf(ms) == [t |-> "date", v |-> ms]
InvalidDate == [t |-> "invalid_date"]

\* x === null || x === undefined
IsNullish(x) == x.t \in {"null", "undefined"}
\* x ?? null
Coalesce(x) == IF IsNullish(x) THEN Null ELSE x
\* isNaN(x) || !isFinite(x), for x a number or NaN
NotFinite(x) == x.t # "num"
\* !x : null, undefined, NaN and 0 are falsy; every object (a Date, even an
\* Invalid Date or the epoch) is truthy
Falsy(x) == \/ x.t \in {"null", "undefined", "nan"}
            \/ (x.t = "num" /\ x.v = 0)

Abs(n) == IF n < 0 THEN -n ELSE n
Min(a, b) == IF a < b THEN a ELSE b
Max(a, b) == IF a > b THEN a ELSE b

\* fixed-point scales
DegScale == 10^5
Milli == 10^3

RECURSIVE SeqsUpTo(_, _)
\* all sequences over S of length 0..n
SeqsUpTo(S, n) ==
    IF n = 0 THEN {<<>>}
    ELSE LET shorter == SeqsUpTo(S, n - 1)
         IN shorter \cup {Append(s, e) : s \in {q \in shorter : Len(q) = n - 1}, e \in S}

----------------------------------------------------------------------------
(* FileParser: field validation *)

LAT_MIN == -90 * DegScale
LAT_MAX == 90 * DegScale
LNG_MIN == -180 * DegScale
LNG_MAX == 180 * DegScale
ELEV_MIN == -500
ELEV_MAX == 9000
MAX_SPEED_KMH == 35

\* a variant without the longitude range test
validateCoordinate_noLng(lat, lng) ==
    IF IsNullish(lat) \/ IsNullish(lng)
    THEN [valid |-> FALSE, reason |-> "missing"]
    ELSE IF NotFinite(lat) \/ NotFinite(lng)
    THEN [valid |-> FALSE, reason |-> "invalid_number"]
    ELSE IF lat.v < LAT_MIN \/ lat.v > LAT_MAX
    THEN [valid |-> FALSE, reason |-> "lat_out_of_range"]
    ELSE [valid |-> TRUE, reason |-> "none"]

validateCoordinate(lat, lng) ==
    IF IsNullish(lat) \/ IsNullish(lng)
    THEN [valid |-> FALSE, reason |-> "missing"]
    ELSE IF NotFinite(lat) \/ NotFinite(lng)
    THEN [valid |-> FALSE, reason |-> "invalid_number"]
    ELSE IF lat.v < LAT_MIN \/ lat.v > LAT_MAX
    THEN [valid |-> FALSE, reason |-> "lat_out_of_range"]
    ELSE IF lng.v < LNG_MIN \/ lng.v > LNG_MAX
    THEN [valid |-> FALSE, reason |-> "lng_out_of_range"]
    ELSE [valid |-> TRUE, reason |-> "none"]

\* a variant that lets an out-of-range elevation through
validateElevation_noRange(elevation) ==
    IF IsNullish(elevation)
    THEN [valid |-> TRUE, value |-> Null, reason |-> "none"]
    ELSE IF NotFinite(elevation)
    THEN [valid |-> FALSE, value |-> Undefined, reason |-> "invalid_number"]
    ELSE [valid |-> TRUE, value |-> elevation, reason |-> "none"]

validateElevation(elevation) ==
    IF IsNullish(elevation)
    THEN [valid |-> TRUE, value |-> Null, reason |-> "none"]
    ELSE IF NotFinite(elevation)
    THEN [valid |-> FALSE, value |-> Undefined, reason |-> "invalid_number"]
    ELSE IF elevation.v < ELEV_MIN \/ elevation.v > ELEV_MAX
    THEN [valid |-> FALSE, value |-> Undefined, reason |-> "out_of_range"]
    ELSE [valid |-> TRUE, value |-> elevation, reason |-> "none"]

\* prevTimestamp is null or an accepted Date
validateTimestamp(timestamp, prevTimestamp) ==
    IF IsNullish(timestamp)
    THEN [valid |-> TRUE, value |-> Null, reason |-> "none"]
    ELSE IF timestamp.t # "date"
    THEN [valid |-> FALSE, value |-> Undefined, reason |-> "invalid_date"]
    ELSE IF ~Falsy(prevTimestamp) /\ timestamp.v < prevTimestamp.v
    THEN [valid |-> FALSE, value |-> Undefined, reason |-> "not_chronological"]
    ELSE [valid |-> TRUE, value |-> timestamp, reason |-> "none"]

\* const validated = { coordinates: [], ..., skipped: 0, warnings: [] }
EmptyValidated ==
    [coordinates |-> <<>>, elevations |-> <<>>, timestamps |-> <<>>,
     heartRates |-> <<>>, cadences |-> <<>>, powers |-> <<>>,
     skipped |-> 0, warnings |-> <<>>]

\* `Point ${i}: Invalid <field> (<reason>)`, i the 0-based raw index
Warning(i, field, reason) == [point |-> i - 1, field |-> field, reason |-> reason]

\* a variant that forgets the `else if (tsResult.value)` test: a null timestamp
\* resets the reference
nextLastValid_reset(tsResult, lastValidTimestamp) ==
    IF tsResult.valid THEN tsResult.value ELSE lastValidTimestamp

\* if (!tsResult.valid) {warn} else if (tsResult.value) lastValidTimestamp = tsResult.value
nextLastValid(tsResult, lastValidTimestamp) ==
    IF tsResult.valid /\ ~Falsy(tsResult.value)
    THEN tsResult.value
    ELSE lastValidTimestamp

\* one iteration of the for loop, for the raw point at (1-based) index i;
\* st = [validated, lastValidTimestamp]
validateStep(rawData, i, st) ==
    LET coord == rawData.coordinates[i]
        coordResult == validateCoordinate(coord.lat, coord.lng)
        v == st.validated
    IN IF ~coordResult.valid
       THEN [st EXCEPT !.validated.skipped = @ + 1,
                       !.validated.warnings =
                           Append(@, Warning(i, "coordinate", coordResult.reason))]
       ELSE
         LET elevResult == validateElevation(rawData.elevations[i])
             tsResult == validateTimestamp(rawData.timestamps[i], st.lastValidTimestamp)
             w1 == IF ~elevResult.valid
                   THEN Append(v.warnings, Warning(i, "elevation", elevResult.reason))
                   ELSE v.warnings
             w2 == IF ~tsResult.valid
                   THEN Append(w1, Warning(i, "timestamp", tsResult.reason))
                   ELSE w1
             last == nextLastValid(tsResult, st.lastValidTimestamp)
         IN [validated |->
                [coordinates |-> Append(v.coordinates, coord),
                 elevations |-> Append(v.elevations,
                                   IF elevResult.valid THEN elevResult.value ELSE Null),
                 timestamps |-> Append(v.timestamps,
                                   IF tsResult.valid THEN tsResult.value ELSE Null),
                 heartRates |-> Append(v.heartRates, Coalesce(rawData.heartRates[i])),
                 cadences |-> Append(v.cadences, Coalesce(rawData.cadences[i])),
                 powers |-> Append(v.powers, Coalesce(rawData.powers[i])),
                 skipped |-> v.skipped,
                 warnings |-> w2],
             lastValidTimestamp |-> last]

RECURSIVE validateLoop(_, _, _)
validateLoop(rawData, i, st) ==
    IF i > Len(rawData.coordinates) THEN st.validated
    ELSE validateLoop(rawData, i + 1, validateStep(rawData, i, st))

validateParsedData(rawData) ==
    validateLoop(rawData, 1, [validated |-> EmptyValidated, lastValidTimestamp |-> Null])

----------------------------------------------------------------------------
(* Utils: GPS cleaning *)

\* Earth radius, km
R == 6371
\* millimetres of great circle per 10^-5 degree: R * pi/180 * 10^-5 km
MmPerUnit == (R * 174533) \div 10^6

\* Every coordinate the model hands to Utils lies on one meridian, where the
\* haversine formula gives the arc R * |dLat| exactly; the result is in mm.
haversineDistance(coord1, coord2) ==
    Abs(coord2.lat.v - coord1.lat.v) * MmPerUnit

\* timestamps[i] - timestamps[i-1] in ms; NaN unless both are valid Dates
ElapsedMs(tPrev, tCur) ==
    IF tPrev.t = "date" /\ tCur.t = "date" THEN Num(tCur.v - tPrev.v) ELSE NaN

\* a variant without the `if (deltaTime > 0)` guard
distanceFlagAt_noGuard(coordinates, timestamps, i, maxSpeedKmh) ==
    IF Falsy(timestamps[i]) \/ Falsy(timestamps[i - 1]) THEN TRUE
    ELSE LET distance == haversineDistance(coordinates[i - 1], coordinates[i])
             deltaTime == ElapsedMs(timestamps[i - 1], timestamps[i])
         IN IF deltaTime.t = "num" /\ distance * 36 > maxSpeedKmh * 10 * deltaTime.v
            THEN FALSE
            ELSE TRUE

\* the loop body of filterDistanceJumps for index i >= 2 (1-based):
\* impliedSpeed = (distance[m] / deltaTime[s]) * 3.6 > maxSpeedKmh, i.e.
\* distance[mm] * 36 > maxSpeedKmh * 10 * deltaTime[ms] when deltaTime > 0
distanceFlagAt(coordinates, timestamps, i, maxSpeedKmh) ==
    IF Falsy(timestamps[i]) \/ Falsy(timestamps[i - 1]) THEN TRUE
    ELSE LET distance == haversineDistance(coordinates[i - 1], coordinates[i])
             deltaTime == ElapsedMs(timestamps[i - 1], timestamps[i])
         IN IF /\ deltaTime.t = "num" /\ deltaTime.v > 0
               /\ distance * 36 > maxSpeedKmh * 10 * deltaTime.v
            THEN FALSE
            ELSE TRUE

\* coordinates and timestamps are arrays (the `!coordinates || !timestamps`
\* guards never fire for the callers in this repository)
filterDistanceJumps(coordinates, timestamps, maxSpeedKmh) ==
    IF Len(coordinates) < 2 THEN [i \in 1..Len(coordinates) |-> TRUE]
    ELSE [i \in 1..Len(coordinates) |->
             IF i = 1 THEN TRUE
             ELSE distanceFlagAt(coordinates, timestamps, i, maxSpeedKmh)]

RECURSIVE accelFilteredAt_lastKept(_, _, _, _)
\* a variant that measures the acceleration from the last sample it kept
\* instead of from the raw previous sample
accelFilteredAt_lastKept(speeds, timestamps, i, maxAcceleration) ==
    LET kept == {j \in 1..(i - 1) :
                    j = 1 \/ accelFilteredAt_lastKept(speeds, timestamps, j, maxAcceleration) # Null}
        prev == CHOOSE j \in kept : \A m \in kept : m <= j
    IN IF \/ Falsy(speeds[i]) \/ Falsy(speeds[prev])
          \/ Falsy(timestamps[i]) \/ Falsy(timestamps[prev])
       THEN speeds[i]
       ELSE LET deltaSpeed == Abs(speeds[i].v - speeds[prev].v)
                deltaTime == ElapsedMs(timestamps[prev], timestamps[i])
            IN IF /\ deltaTime.t = "num" /\ deltaTime.v > 0
                  /\ deltaSpeed * 1000 > maxAcceleration * 3600 * deltaTime.v
               THEN Null
               ELSE speeds[i]

\* the loop body of filterAccelerationSpikes for index i >= 2 (1-based):
\* acceleration = |dSpeed[km/h]| * (1000/3600) / deltaTime[s] > maxAcceleration,
\* i.e. |dSpeed[1/1000 km/h]| * 1000 > maxAcceleration * 3600 * deltaTime[ms]
accelFilteredAt(speeds, timestamps, i, maxAcceleration) ==
    IF \/ Falsy(speeds[i]) \/ Falsy(speeds[i - 1])
       \/ Falsy(timestamps[i]) \/ Falsy(timestamps[i - 1])
    THEN speeds[i]
    ELSE LET deltaSpeed == Abs(speeds[i].v - speeds[i - 1].v)
             deltaTime == ElapsedMs(timestamps[i - 1], timestamps[i])
         IN IF /\ deltaTime.t = "num" /\ deltaTime.v > 0
               /\ deltaSpeed * 1000 > maxAcceleration * 3600 * deltaTime.v
            THEN Null
            ELSE speeds[i]

filterAccelerationSpikes(speeds, timestamps, maxAcceleration) ==
    IF Len(speeds) < 2 THEN speeds
    ELSE [i \in 1..Len(speeds) |->
             IF i = 1 THEN speeds[1]
             ELSE accelFilteredAt(speeds, timestamps, i, maxAcceleration)]

\* default parameter of filterAccelerationSpikes, m/s^2
DefaultMaxAcceleration == 10

\* speeds[i] > maxSpeed || speeds[i] < 0  (maxSpeed in km/h)
SpeedOutOfRange(speed, maxSpeed) ==
    speed.t = "num" /\ (speed.v > maxSpeed * Milli \/ speed.v < 0)

\* a variant that forgets the range test on the raw speed
cleanStep_noRange(cleaned, speeds, distanceFlags, accelFiltered, i, maxSpeed) ==
    IF ~distanceFlags[i] \/ accelFiltered[i] = Null
    THEN [cleaned EXCEPT !.speeds[i] = Null, !.paces[i] = Null]
    ELSE [cleaned EXCEPT !.validIndices = Append(@, i - 1)]

\* one iteration of cleanGPSData's loop (validIndices holds 0-based indices)
cleanStep(cleaned, speeds, distanceFlags, accelFiltered, i, maxSpeed) ==
    IF ~distanceFlags[i] \/ accelFiltered[i] = Null
    THEN [cleaned EXCEPT !.speeds[i] = Null, !.paces[i] = Null]
    ELSE IF SpeedOutOfRange(speeds[i], maxSpeed)
    THEN [cleaned EXCEPT !.speeds[i] = Null, !.paces[i] = Null]
    ELSE [cleaned EXCEPT !.validIndices = Append(@, i - 1)]

RECURSIVE cleanLoop(_, _, _, _, _, _)
cleanLoop(cleaned, speeds, distanceFlags, accelFiltered, i, maxSpeed) ==
    IF i > Len(speeds) THEN cleaned
    ELSE cleanLoop(cleanStep(cleaned, speeds, distanceFlags, accelFiltered, i, maxSpeed),
                   speeds, distanceFlags, accelFiltered, i + 1, maxSpeed)

cleanGPSData(speeds, paces, coordinates, timestamps, maxSpeed) ==
    cleanLoop([speeds |-> speeds, paces |-> paces, validIndices |-> <<>>],
              speeds,
              filterDistanceJumps(coordinates, timestamps, maxSpeed),
              filterAccelerationSpikes(speeds, timestamps, DefaultMaxAcceleration),
              1, maxSpeed)

----------------------------------------------------------------------------
(* Utils: median and rolling median *)

\* [...arr].sort((a, b) => a - b), arr a sequence of integers
SortAscending(arr) == SortSeq(arr, LAMBDA a, b : a < b)

\* Utils.median of a non-empty sequence of numbers (the mean of an even
\* count is exact for the whole-number inputs of the model)
median(arr) ==
    LET sorted == SortAscending(arr)
        mid == Len(sorted) \div 2
    IN IF Len(sorted) % 2 = 0
       THEN (sorted[mid] + sorted[mid + 1]) \div 2
       ELSE sorted[mid + 1]

\* a variant whose slice ends one element early
windowValues_short(data, i, halfWindow) ==
    LET start == Max(1, i - halfWindow)
        end == Min(Len(data), i + halfWindow - 1)
        slice == [k \in 1..(IF end >= start THEN end - start + 1 ELSE 0) |->
                     data[start + k - 1]]
        kept == SelectSeq(slice, LAMBDA x : x.t = "num")
    IN [k \in 1..Len(kept) |-> kept[k].v]

\* data.slice(start, end).filter(v => v !== null && !isNaN(v)), for the
\* 1-based index i: the numbers at indices max(1, i-h) .. min(n, i+h)
windowValues(data, i, halfWindow) ==
    LET start == Max(1, i - halfWindow)
        end == Min(Len(data), i + halfWindow)
        slice == [k \in 1..(end - start + 1) |-> data[start + k - 1]]
        kept == SelectSeq(slice, LAMBDA x : x.t = "num")
    IN [k \in 1..Len(kept) |-> kept[k].v]

rollingMedian(data, windowSize) ==
    IF Len(data) < windowSize THEN data
    ELSE LET halfWindow == windowSize \div 2
         IN [i \in 1..Len(data) |->
                LET window == windowValues(data, i, halfWindow)
                IN IF Len(window) > 0 THEN Num(median(window)) ELSE data[i]]

----------------------------------------------------------------------------
(* Utils: route statistics *)

RECURSIVE calculateDistanceFrom(_, _)
\* the loop of calculateDistance from index i (mm)
calculateDistanceFrom(coords, i) ==
    IF i > Len(coords) THEN 0
    ELSE haversineDistance(coords[i - 1], coords[i]) + calculateDistanceFrom(coords, i + 1)

calculateDistance(coords) == calculateDistanceFrom(coords, 2)

RECURSIVE elevationLoop(_, _, _)
\* the loop of calculateElevationStats over validElevations (plain numbers)
elevationLoop(valid, i, acc) ==
    IF i > Len(valid) THEN acc
    ELSE LET diff == valid[i] - valid[i - 1]
         IN elevationLoop(valid, i + 1,
                [gain |-> IF diff > 0 THEN acc.gain + diff ELSE acc.gain,
                 loss |-> IF diff > 0 THEN acc.loss ELSE acc.loss + Abs(diff),
                 min |-> IF valid[i] < acc.min THEN valid[i] ELSE acc.min,
                 max |-> IF valid[i] > acc.max THEN valid[i] ELSE acc.max])

\* a variant that keeps the missing elevations and reads them as 0
calculateElevationStats_nullAsZero(elevations) ==
    LET validElevations == [k \in 1..Len(elevations) |->
                               IF elevations[k].t = "num" THEN elevations[k].v ELSE 0]
    IN IF Len(elevations) = 0
       THEN [gain |-> 0, loss |-> 0, min |-> 0, max |-> 0]
       ELSE elevationLoop(validElevations, 2,
                [gain |-> 0, loss |-> 0,
                 min |-> validElevations[1], max |-> validElevations[1]])

calculateElevationStats(elevations) ==
    LET kept == SelectSeq(elevations, LAMBDA e : e.t = "num")
        validElevations == [k \in 1..Len(kept) |-> kept[k].v]
    IN IF Len(elevations) = 0 \/ Len(validElevations) = 0
       THEN [gain |-> 0, loss |-> 0, min |-> 0, max |-> 0]
       ELSE elevationLoop(validElevations, 2,
                [gain |-> 0, loss |-> 0,
                 min |-> validElevations[1], max |-> validElevations[1]])

----------------------------------------------------------------------------
(* FileParser: parseGPX, parseFIT, createRouteData *)

\* duration in ms between the first and last non-null timestamp, else null
routeDuration(timestamps) ==
    LET validTimestamps == SelectSeq(timestamps, LAMBDA t : t # Null)
    IN IF Len(validTimestamps) >= 2
       THEN Num(validTimestamps[Len(validTimestamps)].v - validTimestamps[1].v)
       ELSE Null

createRouteData(filename, color, coordinates, elevations, timestamps, heartRates, cadences, powers, speeds, paces) ==
    LET elevStats == calculateElevationStats(elevations)
    IN [filename |-> filename, color |-> color,
        coordinates |-> coordinates, elevations |-> elevations,
        heartRates |-> heartRates, cadences |-> cadences, powers |-> powers,
        speeds |-> speeds, paces |-> paces, timestamps |-> timestamps,
        stats |-> [distance |-> calculateDistance(coordinates),
                   elevationGain |-> elevStats.gain, elevationLoss |-> elevStats.loss,
                   minElevation |-> elevStats.min, maxElevation |-> elevStats.max,
                   duration |-> routeDuration(timestamps)]]

\* throw new Error(message) / reject(new Error(message))
Thrown(message) == [ok |-> FALSE, error |-> message]
Returns(routeData) == [ok |-> TRUE, route |-> routeData]

\* the raw arrays parseGPX collects from the track points of a document: the
\* attributes and child elements arrive as parseFloat / new Date made them, the
\* cadence is doubled
gpxRawData(points) ==
    [coordinates |-> [i \in 1..Len(points) |-> [lat |-> points[i].lat, lng |-> points[i].lon]],
     elevations |-> [i \in 1..Len(points) |-> points[i].ele],
     timestamps |-> [i \in 1..Len(points) |-> points[i].time],
     heartRates |-> [i \in 1..Len(points) |-> points[i].hr],
     cadences |-> [i \in 1..Len(points) |->
                      IF IsNullish(points[i].cad) THEN Null ELSE Num(points[i].cad.v * 2)],
     powers |-> [i \in 1..Len(points) |-> points[i].power]]

\* the speed / pace derivation of parseGPX at index i (1-based):
\* speed = dist[km] / timeDiff[h] in 1/1000 km/h, pace = 60 / speed in 1/1000 min/km
gpxSpeedAt(coordinates, timestamps, i) ==
    IF i = 1 \/ Falsy(timestamps[i]) \/ Falsy(timestamps[i - 1]) THEN Null
    ELSE LET dist == haversineDistance(coordinates[i - 1], coordinates[i])
             timeDiff == ElapsedMs(timestamps[i - 1], timestamps[i])
         IN IF timeDiff.t = "num" /\ timeDiff.v > 0 /\ dist > 0
            THEN Num((dist * 3600) \div timeDiff.v)
            ELSE Null

gpxPaceAt(coordinates, timestamps, i) ==
    LET speed == gpxSpeedAt(coordinates, timestamps, i)
    IN IF speed = Null THEN Null ELSE Num((60 * Milli * Milli) \div speed.v)

\* window size of the smoothing pass of both parsers
SmoothingWindow == 5

\* cleanGPSData, then rollingMedian on speeds and on paces, then createRouteData
cleanSmoothAndBuild(filename, color, coordinates, elevations, timestamps, heartRates, cadences, powers, speeds, paces) ==
    LET cleanedData == cleanGPSData(speeds, paces, coordinates, timestamps, MAX_SPEED_KMH)
        smoothedSpeeds == rollingMedian(cleanedData.speeds, SmoothingWindow)
        smoothedPaces == rollingMedian(cleanedData.paces, SmoothingWindow)
    IN createRouteData(filename, color, coordinates, elevations, timestamps,
                       heartRates, cadences, powers, smoothedSpeeds, smoothedPaces)

\* file = [name, wellFormed, points]: the document and its trkpt / rtept elements
parseGPX(file, color) ==
    IF ~file.wellFormed THEN Thrown("Invalid XML")
    ELSE IF Len(file.points) = 0 THEN Thrown("No track points found")
    ELSE LET validated == validateParsedData(gpxRawData(file.points))
             n == Len(validated.coordinates)
         IN IF n = 0 THEN Thrown("No valid track points after validation")
            ELSE Returns(cleanSmoothAndBuild(file.name, color,
                    validated.coordinates, validated.elevations, validated.timestamps,
                    validated.heartRates, validated.cadences, validated.powers,
                    [i \in 1..n |-> gpxSpeedAt(validated.coordinates, validated.timestamps, i)],
                    [i \in 1..n |-> gpxPaceAt(validated.coordinates, validated.timestamps, i)]))

\* records.forEach: a record is used when both positions are defined, not NaN
\* and not 0
fitRecordUsed(record) ==
    /\ record.position_lat # Undefined /\ record.position_long # Undefined
    /\ record.position_lat.t # "nan" /\ record.position_long.t # "nan"
    /\ record.position_lat # Num(0) /\ record.position_long # Num(0)

\* enhanced_speed if present, else speed if present, else null (km/h)
fitSpeed(record) ==
    IF ~IsNullish(record.enhanced_speed) THEN record.enhanced_speed
    ELSE IF ~IsNullish(record.speed) THEN record.speed
    ELSE Null

\* speedKmh && speedKmh > 0 ? 60 / speedKmh : null
fitPace(speedKmh) ==
    IF ~Falsy(speedKmh) /\ speedKmh.v > 0
    THEN Num((60 * Milli * Milli) \div speedKmh.v)
    ELSE Null

\* file = [name, parserLoaded, parseError, records]
parseFIT(file, color) ==
    IF ~file.parserLoaded THEN Thrown("FIT parser not loaded")
    ELSE IF file.parseError THEN Thrown("FIT parse error")
    ELSE IF Len(file.records) = 0 THEN Thrown("No data points found")
    ELSE LET used == SelectSeq(file.records, fitRecordUsed)
             n == Len(used)
         IN IF n = 0 THEN Thrown("No valid GPS data found")
            ELSE Returns(cleanSmoothAndBuild(file.name, color,
                    [i \in 1..n |-> [lat |-> used[i].position_lat, lng |-> used[i].position_long]],
                    [i \in 1..n |-> IF ~IsNullish(used[i].enhanced_altitude)
                                    THEN used[i].enhanced_altitude
                                    ELSE Coalesce(used[i].altitude)],
                    [i \in 1..n |-> IF Falsy(used[i].timestamp) THEN Null
                                    ELSE DateOf(used[i].timestamp.v)],
                    [i \in 1..n |-> Coalesce(used[i].heart_rate)],
                    [i \in 1..n |-> IF IsNullish(used[i].cadence) THEN Null
                                    ELSE Num(used[i].cadence.v * 2)],
                    [i \in 1..n |-> Coalesce(used[i].power)],
                    [i \in 1..n |-> fitSpeed(used[i])],
                    [i \in 1..n |-> fitPace(fitSpeed(used[i]))]))

----------------------------------------------------------------------------
(* Specification SpecValidate: validateParsedData applied to bounded raw data *)

MaxPoints == 3

\* raw timestamps: absent, an Invalid Date, and two instants
RawTimes == {Null, InvalidDate, DateOf(1000), DateOf(2000)}
\* raw elevations of the point at index i: absent, in range, out of range, NaN
RawElevs(i) == {Undefined, Num(100 + i), Num(50000), NaN}
\* the valid coordinate of index i (index 1 lies on the boundary lat 90, lng -180)
GoodCoord(i) == [lat |-> Num(LAT_MAX - (i - 1)), lng |-> Num(LNG_MIN)]

\* the raw points a file may hold at index i: every elevation and timestamp on a
\* valid coordinate, and one point for each way a coordinate is invalid
RawPoints(i) ==
    {[coord |-> GoodCoord(i), ele |-> e, time |-> t] : e \in RawElevs(i), t \in RawTimes}
    \cup {[coord |-> [lat |-> Num(200 * DegScale), lng |-> Num(0)],
           ele |-> Num(50000), time |-> DateOf(2000)],
          [coord |-> [lat |-> Num(0), lng |-> Num(LNG_MAX + 1)],
           ele |-> Num(100 + i), time |-> DateOf(1000)],
          [coord |-> [lat |-> NaN, lng |-> Num(0)],
           ele |-> NaN, time |-> InvalidDate],
          [coord |-> [lat |-> Num(0), lng |-> Null],
           ele |-> Null, time |-> Null]}

RECURSIVE PointSeqs(_)
\* all sequences of at most n raw points, the point at index i from RawPoints(i)
PointSeqs(n) ==
    IF n = 0 THEN {<<>>}
    ELSE LET shorter == PointSeqs(n - 1)
         IN shorter \cup {Append(s, p) : s \in {q \in shorter : Len(q) = n - 1},
                                          p \in RawPoints(n)}

\* the parallel arrays of rawData; the sensor channels carry the raw index, and
\* are absent (null or undefined) at some indices
RawDataOf(pts) ==
    [coordinates |-> [i \in 1..Len(pts) |-> pts[i].coord],
     elevations |-> [i \in 1..Len(pts) |-> pts[i].ele],
     timestamps |-> [i \in 1..Len(pts) |-> pts[i].time],
     heartRates |-> [i \in 1..Len(pts) |-> Num(150 + i)],
     cadences |-> [i \in 1..Len(pts) |-> IF i % 2 = 1 THEN Undefined ELSE Num(170 + i)],
     powers |-> [i \in 1..Len(pts) |-> IF i % 2 = 0 THEN Null ELSE Num(200 + i)]]

AppIdle ==
    /\ files = <<>>
    /\ fileIdx = 0
    /\ routes = <<>>
    /\ colorIndex = 0
    /\ alerts = <<>>

InitValidate ==
    /\ pc = "call"
    /\ args \in {[rawData |-> RawDataOf(pts)] : pts \in PointSeqs(MaxPoints)}
    /\ ret = Null
    /\ AppIdle

ValidateParsedData ==
    /\ pc = "call"
    /\ ret' = validateParsedData(args.rawData)
    /\ pc' = "return"
    /\ UNCHANGED <<args, appVars>>

NextValidate == ValidateParsedData

SpecValidate == InitValidate /\ [][NextValidate]_vars

----------------------------------------------------------------------------
(* Claims about validateParsedData (checked under SpecValidate) *)

\* a coordinate is valid when both parts are finite numbers within the ranges
CoordIsValid(c) ==
    /\ c.lat.t = "num" /\ c.lng.t = "num"
    /\ c.lat.v >= -90 * DegScale /\ c.lat.v <= 90 * DegScale
    /\ c.lng.v >= -180 * DegScale /\ c.lng.v <= 180 * DegScale

\* an elevation is invalid when present and not a finite number in [-500, 9000]
ElevIsInvalid(e) ==
    /\ ~IsNullish(e)
    /\ (e.t # "num" \/ e.v < -500 \/ e.v > 9000)

\* the raw indices with a valid coordinate, in increasing order
KeptIndices(raw) ==
    SelectSeq([i \in 1..Len(raw.coordinates) |-> i],
              LAMBDA i : CoordIsValid(raw.coordinates[i]))

DroppedIndices(raw) ==
    {i \in 1..Len(raw.coordinates) : ~CoordIsValid(raw.coordinates[i])}

WarningsFor(v, i, field) ==
    {w \in 1..Len(v.warnings) : v.warnings[w].point = i - 1 /\ v.warnings[w].field = field}

\* C1: the six result arrays all have length N - skipped, and output index j
\* holds the fields of the j-th raw point (in original order) whose coordinate
\* is valid (its elevation and timestamp either as given or degraded to null).
C1_IndexAligned ==
    pc = "return" =>
        LET raw == args.rawData
            kept == KeptIndices(raw)
            M == Len(raw.coordinates) - ret.skipped
        IN /\ Len(kept) = M
           /\ Len(ret.coordinates) = M /\ Len(ret.elevations) = M
           /\ Len(ret.timestamps) = M /\ Len(ret.heartRates) = M
           /\ Len(ret.cadences) = M /\ Len(ret.powers) = M
           /\ \A j \in 1..Len(kept) :
                /\ ret.coordinates[j] = raw.coordinates[kept[j]]
                /\ ret.heartRates[j] = Coalesce(raw.heartRates[kept[j]])
                /\ ret.cadences[j] = Coalesce(raw.cadences[kept[j]])
                /\ ret.powers[j] = Coalesce(raw.powers[kept[j]])
                /\ ret.elevations[j] \in {Null, raw.elevations[kept[j]]}
                /\ ret.timestamps[j] \in {Null, raw.timestamps[kept[j]]}

\* a point was dropped between two kept points
C1_Witness ==
    /\ pc = "return"
    /\ Len(args.rawData.coordinates) = 3
    /\ KeptIndices(args.rawData) = <<1, 3>>
    /\ ret.skipped = 1
    /\ Len(ret.coordinates) = 2

\* C2: only an invalid coordinate drops a point: skipped counts exactly the raw
\* points with an invalid coordinate; a kept point with an invalid elevation or
\* timestamp has just that field null and the others as given; one warning is
\* recorded per dropped point and per nulled field; a result is returned.
C2_OnlyCoordinateDrops ==
    pc = "return" =>
        LET raw == args.rawData
            kept == KeptIndices(raw)
            dropped == DroppedIndices(raw)
            nulledElev == {j \in 1..Len(kept) : ElevIsInvalid(raw.elevations[kept[j]])}
            nulledTime == {j \in 1..Len(kept) :
                              /\ ~IsNullish(raw.timestamps[kept[j]])
                              /\ ret.timestamps[j] = Null}
        IN /\ ret.skipped = Cardinality(dropped)
           /\ Len(ret.coordinates) = Len(kept)
           /\ Len(ret.elevations) = Len(kept)
           /\ Len(ret.timestamps) = Len(kept)
           /\ \A j \in 1..Len(kept) :
                /\ ret.coordinates[j] = raw.coordinates[kept[j]]
                /\ ret.elevations[j] = IF j \in nulledElev THEN Null
                                       ELSE Coalesce(raw.elevations[kept[j]])
                /\ raw.timestamps[kept[j]].t = "invalid_date" => ret.timestamps[j] = Null
                /\ ret.timestamps[j] \in {Null, raw.timestamps[kept[j]]}
                /\ ret.heartRates[j] = Coalesce(raw.heartRates[kept[j]])
                /\ ret.cadences[j] = Coalesce(raw.cadences[kept[j]])
                /\ ret.powers[j] = Coalesce(raw.powers[kept[j]])
           /\ \A i \in dropped :
                /\ Cardinality(WarningsFor(ret, i, "coordinate")) = 1
                /\ WarningsFor(ret, i, "elevation") = {}
                /\ WarningsFor(ret, i, "timestamp") = {}
           /\ \A j \in 1..Len(kept) :
                /\ WarningsFor(ret, kept[j], "coordinate") = {}
                /\ Cardinality(WarningsFor(ret, kept[j], "elevation")) =
                       (IF j \in nulledElev THEN 1 ELSE 0)
                /\ Cardinality(WarningsFor(ret, kept[j], "timestamp")) =
                       (IF j \in nulledTime THEN 1 ELSE 0)
           /\ Len(ret.warnings) =
                  Cardinality(dropped) + Cardinality(nulledElev) + Cardinality(nulledTime)

\* a dropped point, a kept point whose elevation alone was nulled, and a kept
\* point whose timestamp alone was nulled
C2_Witness ==
    /\ pc = "return"
    /\ ret.skipped = 1
    /\ \E j \in 1..Len(ret.coordinates) :
          /\ ret.elevations[j] = Null
          /\ ret.timestamps[j].t = "date"
          /\ ElevIsInvalid(args.rawData.elevations[KeptIndices(args.rawData)[j]])
    /\ \E j \in 1..Len(ret.coordinates) :
          /\ ret.timestamps[j] = Null
          /\ ret.elevations[j].t = "num"
          /\ args.rawData.timestamps[KeptIndices(args.rawData)[j]].t = "date"
    /\ Len(ret.warnings) = 3

\* the last accepted (non-null) output timestamp before output index j, or Null
RECURSIVE LastAccepted(_, _)
LastAccepted(ts, j) ==
    IF j <= 1 THEN Null
    ELSE IF ts[j - 1] # Null THEN ts[j - 1]
    ELSE LastAccepted(ts, j - 1)

\* C3: the non-null output timestamps are non-decreasing in index order; a raw
\* Date strictly earlier than the last accepted one is nulled, an equal or later
\* one is accepted, and the reference is the last accepted timestamp whatever
\* null or nulled timestamps lie in between.
C3_Chronological ==
    pc = "return" =>
        LET raw == args.rawData
            kept == KeptIndices(raw)
            ts == ret.timestamps
        IN /\ \A a, b \in 1..Len(ts) :
                (a < b /\ ts[a] # Null /\ ts[b] # Null) =>
                    (ts[a].t = "date" /\ ts[b].t = "date" /\ ts[a].v <= ts[b].v)
           /\ \A j \in 1..Len(ts) :
                LET t == raw.timestamps[kept[j]]
                    ref == LastAccepted(ts, j)
                IN t.t = "date" =>
                      ts[j] = IF ref # Null /\ t.v < ref.v THEN Null ELSE t

\* an earlier timestamp was nulled after a later one, and then one equal to the
\* reference was accepted
C3_Witness ==
    /\ pc = "return"
    /\ Len(ret.timestamps) = 3
    /\ args.rawData.timestamps = <<DateOf(2000), DateOf(1000), DateOf(2000)>>
    /\ ret.timestamps = <<DateOf(2000), Null, DateOf(2000)>>

----------------------------------------------------------------------------
(* Specification SpecClean: filterDistanceJumps, filterAccelerationSpikes and
   cleanGPSData applied to bounded sample series *)

MaxSamples == 3

\* a point on the meridian, lat in 10^-5 degree (1 unit is about 1.11 m)
Coord(lat) == [lat |-> Num(lat), lng |-> Num(0)]

\* positions 0 m, 2.2 m and 1.1 km along the meridian; instants 1.0 s and 1.5 s
\* or no timestamp: consecutive samples are 0.5 s apart, simultaneous, or
\* out of order
JumpSamples ==
    {[coord |-> Coord(lat), time |-> t] :
        lat \in {0, 2, 1000}, t \in {Null, DateOf(1000), DateOf(1500)}}

\* speeds in km/h: absent, 0, 1, 35 and 100
AccelSamples ==
    {[speed |-> sp, time |-> t] :
        sp \in {Null, Num(0), Num(1 * Milli), Num(35 * Milli), Num(100 * Milli)},
        t \in {Null, DateOf(1000), DateOf(1500)}}

\* pace = 60 / speed, as parseFIT derives it: null for a missing or zero speed
PaceOf(speed) ==
    IF speed.t = "num" /\ speed.v > 0 THEN Num((60 * Milli * Milli) \div speed.v) ELSE Null

\* samples for cleanGPSData: position, instant and raw speed in km/h
CleanSample(lat, t, sp) == [coord |-> Coord(lat), time |-> t, speed |-> sp]
CleanSamples ==
    {CleanSample(0, DateOf(1000), Num(1 * Milli)),
     CleanSample(0, DateOf(1000), Num(35 * Milli)),
     CleanSample(0, DateOf(1000), Num(0)),
     CleanSample(2, DateOf(1500), Num(10 * Milli)),
     CleanSample(2, DateOf(1500), Num(35 * Milli)),
     CleanSample(2, DateOf(1500), Num(100 * Milli)),
     CleanSample(2, DateOf(1500), Num(-5 * Milli)),
     CleanSample(2, DateOf(1500), Null),
     CleanSample(2, Null, Num(40 * Milli)),
     CleanSample(1000, DateOf(1500), Num(10 * Milli))}

Field(samples, f) == [i \in 1..Len(samples) |-> samples[i][f]]

JumpCalls(n) ==
    {[fn |-> "filterDistanceJumps", coordinates |-> Field(ss, "coord"),
      timestamps |-> Field(ss, "time"), maxSpeedKmh |-> m] :
        ss \in SeqsUpTo(JumpSamples, n), m \in {35, 40}}

AccelCalls(n) ==
    {[fn |-> "filterAccelerationSpikes", speeds |-> Field(ss, "speed"),
      timestamps |-> Field(ss, "time"), maxAcceleration |-> DefaultMaxAcceleration] :
        ss \in SeqsUpTo(AccelSamples, n)}

CleanCalls(n) ==
    {[fn |-> "cleanGPSData", speeds |-> Field(ss, "speed"),
      paces |-> [i \in 1..Len(ss) |-> PaceOf(ss[i].speed)],
      coordinates |-> Field(ss, "coord"), timestamps |-> Field(ss, "time"),
      maxSpeed |-> m] :
        ss \in SeqsUpTo(CleanSamples, n), m \in {30, MAX_SPEED_KMH}}

InitClean ==
    /\ pc = "call"
    /\ \/ args \in JumpCalls(MaxSamples)
       \/ args \in AccelCalls(MaxSamples)
       \/ args \in CleanCalls(MaxSamples)
    /\ ret = Null
    /\ AppIdle

FilterDistanceJumps ==
    /\ pc = "call" /\ args.fn = "filterDistanceJumps"
    /\ ret' = filterDistanceJumps(args.coordinates, args.timestamps, args.maxSpeedKmh)
    /\ pc' = "return"
    /\ UNCHANGED <<args, appVars>>

FilterAccelerationSpikes ==
    /\ pc = "call" /\ args.fn = "filterAccelerationSpikes"
    /\ ret' = filterAccelerationSpikes(args.speeds, args.timestamps, args.maxAcceleration)
    /\ pc' = "return"
    /\ UNCHANGED <<args, appVars>>

CleanGPSData ==
    /\ pc = "call" /\ args.fn = "cleanGPSData"
    /\ ret' = cleanGPSData(args.speeds, args.paces, args.coordinates,
                           args.timestamps, args.maxSpeed)
    /\ pc' = "return"
    /\ UNCHANGED <<args, appVars>>

NextClean ==
    \/ FilterDistanceJumps
    \/ FilterAccelerationSpikes
    \/ CleanGPSData

SpecClean == InitClean /\ [][NextClean]_vars

Returned(fn) == pc = "return" /\ args.fn = fn

\* C7: one flag per coordinate, flag[0] true, and for i >= 1 the flag is false
\* exactly when both timestamps are present, the elapsed time is > 0 and the
\* implied speed (distance / elapsed) exceeds maxSpeedKmh.
C7_DistanceJumpFlags ==
    Returned("filterDistanceJumps") =>
        LET c == args.coordinates
            ts == args.timestamps
        IN /\ Len(ret) = Len(c)
           /\ Len(c) >= 1 => ret[1] = TRUE
           /\ \A i \in 2..Len(c) :
                ret[i] = FALSE <=>
                    /\ ts[i - 1] # Null /\ ts[i] # Null
                    /\ ts[i].v - ts[i - 1].v > 0
                    \* km/h: mm per ms is m/s, times 3.6
                    /\ Abs(c[i].lat.v - c[i - 1].lat.v) * MmPerUnit * 36
                           > args.maxSpeedKmh * 10 * (ts[i].v - ts[i - 1].v)

\* a 1.1 km jump in 0.5 s is flagged, and the same jump with the timestamps
\* out of order is not
C7_Witness ==
    /\ Returned("filterDistanceJumps")
    /\ Len(ret) = 3
    /\ ret = <<TRUE, FALSE, TRUE>>
    /\ args.timestamps = <<DateOf(1000), DateOf(1500), DateOf(1000)>>
    /\ args.coordinates = <<Coord(0), Coord(1000), Coord(0)>>

\* C8: index 0 passes through; for i >= 1 with both speeds and both timestamps
\* non-null (a speed of 0 included) and elapsed time > 0, the output is null
\* exactly when |dSpeed| in m/s over the elapsed seconds exceeds
\* maxAcceleration; in every other case the output equals speeds[i].
C8_AccelerationIff ==
    Returned("filterAccelerationSpikes") =>
        LET sp == args.speeds
            ts == args.timestamps
        IN /\ Len(ret) = Len(sp)
           /\ Len(sp) >= 1 => ret[1] = sp[1]
           /\ \A i \in 2..Len(sp) :
                LET present == /\ sp[i - 1] # Null /\ sp[i] # Null
                               /\ ts[i - 1] # Null /\ ts[i] # Null
                    spike == /\ present
                             /\ ts[i].v - ts[i - 1].v > 0
                             /\ Abs(sp[i].v - sp[i - 1].v) * 1000
                                    > args.maxAcceleration * 3600 * (ts[i].v - ts[i - 1].v)
                IN ret[i] = IF spike THEN Null ELSE sp[i]

\* C9: speeds' and paces' keep the input length; index i has both null exactly
\* when its distance-jump flag is false, or its acceleration-filtered speed is
\* null, or its raw speed lies outside [0, maxSpeed]; every other index keeps
\* both inputs, and validIndices is the increasing list of those other indices.
C9_CleanExactly ==
    Returned("cleanGPSData") =>
        LET n == Len(args.speeds)
            flags == filterDistanceJumps(args.coordinates, args.timestamps, args.maxSpeed)
            accel == filterAccelerationSpikes(args.speeds, args.timestamps, 10)
            rejected == {i \in 1..n :
                            \/ flags[i] = FALSE
                            \/ accel[i] = Null
                            \/ (args.speeds[i] # Null /\
                                  (args.speeds[i].v < 0 \/
                                   args.speeds[i].v > args.maxSpeed * Milli))}
            survivors == SelectSeq([i \in 1..n |-> i], LAMBDA i : i \notin rejected)
        IN /\ Len(ret.speeds) = n /\ Len(ret.paces) = Len(args.paces)
           /\ \A i \in 1..n :
                IF i \in rejected
                THEN ret.speeds[i] = Null /\ ret.paces[i] = Null
                ELSE ret.speeds[i] = args.speeds[i] /\ ret.paces[i] = args.paces[i]
           /\ ret.validIndices = [k \in 1..Len(survivors) |-> survivors[k] - 1]

\* one index rejected for its raw speed alone (-5 km/h), between two survivors
C9_Witness ==
    /\ Returned("cleanGPSData")
    /\ args.speeds = <<Num(1 * Milli), Num(-5 * Milli), Num(10 * Milli)>>
    /\ ret.validIndices = <<0, 2>>
    /\ ret.speeds[2] = Null /\ ret.paces[2] = Null
    /\ filterDistanceJumps(args.coordinates, args.timestamps, args.maxSpeed)[2] = TRUE
    /\ filterAccelerationSpikes(args.speeds, args.timestamps, 10)[2] # Null

----------------------------------------------------------------------------
(* Specification SpecMedian: rollingMedian applied to bounded series *)

MaxSeries == 5

\* series entries: null, or 10, 11, 12, 50
SeriesValues == {Null, Num(10 * Milli), Num(11 * Milli), Num(12 * Milli), Num(50 * Milli)}
\* window sizes, odd and even, below and above the series length
WindowSizes == {0, 1, 2, 3, 5, 8}

InitMedian ==
    /\ pc = "call"
    /\ args \in {[fn |-> "rollingMedian", data |-> d, windowSize |-> w] :
                    d \in SeqsUpTo(SeriesValues, MaxSeries), w \in WindowSizes}
    /\ ret = Null
    /\ AppIdle

RollingMedian ==
    /\ pc = "call" /\ args.fn = "rollingMedian"
    /\ ret' = rollingMedian(args.data, args.windowSize)
    /\ pc' = "return"
    /\ UNCHANGED <<args, appVars>>

NextMedian == RollingMedian

SpecMedian == InitMedian /\ [][NextMedian]_vars

\* the k-th smallest (k = 1..Len) of a sequence of numbers, by rank
KthSmallest(vals, k) ==
    CHOOSE x \in {vals[j] : j \in 1..Len(vals)} :
        /\ Cardinality({j \in 1..Len(vals) : vals[j] < x}) < k
        /\ Cardinality({j \in 1..Len(vals) : vals[j] <= x}) >= k

\* the median of a non-empty sequence: the central value, or the mean of the
\* two central values for an even count
MedianByRank(vals) ==
    IF Len(vals) % 2 = 1
    THEN KthSmallest(vals, (Len(vals) + 1) \div 2)
    ELSE (KthSmallest(vals, Len(vals) \div 2) + KthSmallest(vals, Len(vals) \div 2 + 1)) \div 2

\* the non-null values of data at the 1-based indices max(1, i-h) .. min(n, i+h)
ClippedWindow(data, i, h) ==
    LET idx == SelectSeq([k \in 1..Len(data) |-> k],
                         LAMBDA k : k >= i - h /\ k <= i + h /\ data[k] # Null)
    IN [k \in 1..Len(idx) |-> data[idx[k]].v]

\* entry i of the result is the median over the clipped window, or the input
\* entry when the window holds no value
MedianEntries(data, w, out) ==
    \A i \in 1..Len(data) :
        LET win == ClippedWindow(data, i, w \div 2)
        IN out[i] = IF Len(win) = 0 THEN data[i] ELSE Num(MedianByRank(win))

\* C10 as stated: for every series and window size the result has the input's
\* length and entry i is the median of the non-null values in the clipped
\* window (the input entry when there is none).
C10_MedianEverywhere ==
    Returned("rollingMedian") =>
        /\ Len(ret) = Len(args.data)
        /\ MedianEntries(args.data, args.windowSize, ret)

\* C10 amended: the result has the input's length; when the series is at least
\* as long as the window size, entry i is the median of the non-null values in
\* the clipped window (the input entry when there is none); a series shorter
\* than the window size is returned unchanged.
\* rollingMedian([10,11,50,12,11], 3)[2] = 12.
C10_MedianWhenLongEnough ==
    Returned("rollingMedian") =>
        /\ Len(ret) = Len(args.data)
        /\ IF Len(args.data) >= args.windowSize
           THEN MedianEntries(args.data, args.windowSize, ret)
           ELSE ret = args.data
        /\ (/\ args.data = <<Num(10 * Milli), Num(11 * Milli), Num(50 * Milli),
                             Num(12 * Milli), Num(11 * Milli)>>
            /\ args.windowSize = 3) => ret[3] = Num(12 * Milli)

\* the spike of the example was smoothed, a null entry was filled from its
\* neighbours ...
C10_Witness ==
    /\ Returned("rollingMedian")
    /\ args.windowSize = 3
    /\ args.data = <<Num(10 * Milli), Num(11 * Milli), Num(50 * Milli),
                     Num(12 * Milli), Num(11 * Milli)>>
    /\ ret[3] = Num(12 * Milli)
    /\ ret[1] = Num(10500)

----------------------------------------------------------------------------
(* Specification SpecParse: parseGPX and parseFIT applied to bounded files *)

MaxTrack == 5

\* the track point at index i of a GPX document: 2.2 m further along the
\* meridian than the previous one, at 556 m, or at latitude 200; one second
\* after the previous one, at a fixed instant (stale), or without <time>
GpxPoints(i) ==
    {[lat |-> Num(lat), lon |-> Num(0), ele |-> Num(100 + i), time |-> t,
      hr |-> Num(150 + i), cad |-> Num(85), power |-> Null] :
        lat \in {2 * i, 500, 200 * DegScale},
        t \in {DateOf(1000 * i), DateOf(2000), Null}}

\* the record at index i of a FIT file: 2.2 m further along a meridian (lng 1)
\* each second or stamped with a fixed instant; sensor speed absent, 0 or 10 km/h
FitRecords(i) ==
    {[position_lat |-> Num(2 * i), position_long |-> Num(1),
      enhanced_altitude |-> Undefined, altitude |-> Num(100 + i),
      timestamp |-> Num(ts), heart_rate |-> Num(150 + i), cadence |-> Undefined,
      power |-> Undefined, enhanced_speed |-> sp, speed |-> Undefined] :
        ts \in {1000 * i, 2000}, sp \in {Undefined, Num(0), Num(10 * Milli)}}

RECURSIVE GpxTracks(_)
\* all documents of at most n track points, the point at index i from GpxPoints(i)
GpxTracks(n) ==
    IF n = 0 THEN {<<>>}
    ELSE LET shorter == GpxTracks(n - 1)
         IN shorter \cup {Append(s, p) : s \in {q \in shorter : Len(q) = n - 1},
                                          p \in GpxPoints(n)}

RECURSIVE FitTracks(_)
\* all record lists of at most n records, the record at index i from FitRecords(i)
FitTracks(n) ==
    IF n = 0 THEN {<<>>}
    ELSE LET shorter == FitTracks(n - 1)
         IN shorter \cup {Append(s, r) : s \in {q \in shorter : Len(q) = n - 1},
                                          r \in FitRecords(n)}

GpxFiles(n) ==
    {[name |-> "track.gpx", wellFormed |-> TRUE, points |-> pts] :
        pts \in GpxTracks(n)}
    \cup {[name |-> "broken.gpx", wellFormed |-> FALSE, points |-> <<>>]}

FitFiles(n) ==
    {[name |-> "ride.fit", parserLoaded |-> TRUE, parseError |-> FALSE, records |-> rs] :
        rs \in FitTracks(n)}
    \cup {[name |-> "corrupt.fit", parserLoaded |-> TRUE, parseError |-> TRUE, records |-> <<>>],
          [name |-> "early.fit", parserLoaded |-> FALSE, parseError |-> FALSE, records |-> <<>>]}

InitParse ==
    /\ pc = "call"
    /\ \/ args \in {[fn |-> "parseGPX", file |-> f, color |-> 0] : f \in GpxFiles(MaxTrack)}
       \/ args \in {[fn |-> "parseFIT", file |-> f, color |-> 0] : f \in FitFiles(MaxTrack)}
    /\ ret = Null
    /\ AppIdle

ParseGPX ==
    /\ pc = "call" /\ args.fn = "parseGPX"
    /\ ret' = parseGPX(args.file, args.color)
    /\ pc' = "return"
    /\ UNCHANGED <<args, appVars>>

ParseFIT ==
    /\ pc = "call" /\ args.fn = "parseFIT"
    /\ ret' = parseFIT(args.file, args.color)
    /\ pc' = "return"
    /\ UNCHANGED <<args, appVars>>

NextParse ==
    \/ ParseGPX
    \/ ParseFIT

SpecParse == InitParse /\ [][NextParse]_vars

\* a parser returned a route
Parsed == pc = "return" /\ args.fn \in {"parseGPX", "parseFIT"} /\ ret.ok

\* the series handed to cleanGPSData by the parser that produced the route
RawSpeedsOf(call, route) ==
    IF call.fn = "parseGPX"
    THEN [i \in 1..Len(route.coordinates) |->
             gpxSpeedAt(route.coordinates, route.timestamps, i)]
    ELSE LET used == SelectSeq(call.file.records, fitRecordUsed)
         IN [i \in 1..Len(used) |-> fitSpeed(used[i])]

\* the 1-based indices that cleanGPSData rejected while producing the route
RejectedByCleaning(call, route) ==
    LET raw == RawSpeedsOf(call, route)
        cleaned == cleanGPSData(raw, raw, route.coordinates, route.timestamps, MAX_SPEED_KMH)
    IN {i \in 1..Len(raw) : \A k \in 1..Len(cleaned.validIndices) :
                                cleaned.validIndices[k] # i - 1}

\* paces[i] is non-null only where speeds[i] is non-null and positive
PaceImpliesSpeed(route) ==
    \A i \in 1..Len(route.paces) :
        route.paces[i] # Null => (route.speeds[i] # Null /\ route.speeds[i].v > 0)

\* C4: in every route a parser produces, paces[i] is non-null only if speeds[i]
\* is non-null and positive, and an index rejected by cleaning has speeds[i] and
\* paces[i] both null.
C4_PaceSpeedInvariant ==
    Parsed =>
        /\ PaceImpliesSpeed(ret.route)
        /\ \A i \in RejectedByCleaning(args, ret.route) :
              ret.route.speeds[i] = Null /\ ret.route.paces[i] = Null

\* C5: in every route a parser produces, the non-null timestamps are
\* non-decreasing in index order.
C5_RouteTimestampsOrdered ==
    Parsed =>
        \A a, b \in 1..Len(ret.route.timestamps) :
            (a < b /\ ret.route.timestamps[a] # Null /\ ret.route.timestamps[b] # Null) =>
                ret.route.timestamps[a].v <= ret.route.timestamps[b].v

----------------------------------------------------------------------------
(* RouteOverlayApp.handleFiles *)

\* Utils.colors.length
NumColors == 20

\* new Route(routeData): the route data and the fresh view / playback flags
Route(data) ==
    [visible |-> TRUE, selected |-> FALSE, isPlaying |-> FALSE,
     animationState |-> Null, animationMarker |-> Null] @@ data

\* file.name.toLowerCase().endsWith('.' + ext); file.ext is the name's suffix
LowerCase(ext) ==
    CASE ext = "GPX" -> "gpx"
      [] ext = "FIT" -> "fit"
      [] OTHER -> ext

\* a variant that advances colorIndex when the colour is picked, before parsing
processFile_countFirst(file, app) ==
    LET color == app.colorIndex % NumColors
        parsed == IF LowerCase(file.ext) = "gpx" THEN parseGPX(file, color)
                  ELSE parseFIT(file, color)
    IN IF LowerCase(file.ext) \notin {"gpx", "fit"}
       THEN [app EXCEPT !.alerts = Append(@, [kind |-> "unsupported", file |-> file.name,
                                              message |-> "Unsupported file type"])]
       ELSE IF parsed.ok
       THEN [app EXCEPT !.routes = Append(@, Route(parsed.route)),
                        !.colorIndex = @ + 1]
       ELSE [app EXCEPT !.colorIndex = @ + 1,
                        !.alerts = Append(@, [kind |-> "failed", file |-> file.name,
                                              message |-> parsed.error])]

\* one iteration of handleFiles' for loop on app = [routes, colorIndex, alerts]:
\* the try block up to routes.push / colorIndex++, or the catch block's alert
processFile(file, app) ==
    LET color == app.colorIndex % NumColors
        parsed == IF LowerCase(file.ext) = "gpx" THEN parseGPX(file, color)
                  ELSE parseFIT(file, color)
    IN IF LowerCase(file.ext) \notin {"gpx", "fit"}
       THEN [app EXCEPT !.alerts = Append(@, [kind |-> "unsupported", file |-> file.name,
                                              message |-> "Unsupported file type"])]
       ELSE IF parsed.ok
       THEN [app EXCEPT !.routes = Append(@, Route(parsed.route)),
                        !.colorIndex = @ + 1]
       ELSE [app EXCEPT !.alerts = Append(@, [kind |-> "failed", file |-> file.name,
                                              message |-> parsed.error])]

----------------------------------------------------------------------------
(* Specification Spec: one batch of files dropped on the application *)

MaxFiles == 3

GpxPoint(i, lat, t) ==
    [lat |-> Num(lat), lon |-> Num(0), ele |-> Num(100 + i), time |-> t,
     hr |-> Num(150 + i), cad |-> Num(85), power |-> Null]

FitRecord(i, lat, ts) ==
    [position_lat |-> Num(lat), position_long |-> Num(1),
     enhanced_altitude |-> Undefined, altitude |-> Num(100 + i),
     timestamp |-> Num(ts), heart_rate |-> Num(150 + i), cadence |-> Undefined,
     power |-> Undefined, enhanced_speed |-> Num(10 * Milli), speed |-> Undefined]

GpxFile(name, ext, wellFormed, points) ==
    [name |-> name, ext |-> ext, wellFormed |-> wellFormed, points |-> points]

FitFile(name, ext, parseError, records) ==
    [name |-> name, ext |-> ext, parserLoaded |-> TRUE, parseError |-> parseError,
     records |-> records]

\* the files a user may drop: good tracks, a track with one bad point, and one
\* file for each way an import fails
FileSamples ==
    {GpxFile("track.gpx", "gpx", TRUE,
             <<GpxPoint(1, 2, DateOf(1000)), GpxPoint(2, 4, DateOf(2000))>>),
     GpxFile("PARTLY.GPX", "GPX", TRUE,
             <<GpxPoint(1, 200 * DegScale, DateOf(1000)), GpxPoint(2, 4, DateOf(2000))>>),
     GpxFile("broken.gpx", "gpx", FALSE, <<>>),
     GpxFile("empty.gpx", "gpx", TRUE, <<>>),
     GpxFile("nowhere.gpx", "gpx", TRUE,
             <<GpxPoint(1, 200 * DegScale, DateOf(1000)), GpxPoint(2, -91 * DegScale, Null)>>),
     FitFile("ride.fit", "fit", FALSE,
             <<FitRecord(1, 2, 1000), FitRecord(2, 4, 2000)>>),
     FitFile("corrupt.fit", "fit", TRUE, <<>>),
     FitFile("norecords.fit", "fit", FALSE, <<>>),
     FitFile("indoor.fit", "fit", FALSE, <<FitRecord(1, 0, 1000)>>),
     [name |-> "notes.txt", ext |-> "txt"]}

Init ==
    /\ pc = "idle"
    /\ args = Null
    /\ ret = Null
    /\ AppIdle

\* handleFiles(files) is called with a dropped or selected FileList
HandleFiles ==
    /\ pc = "idle"
    /\ \E batch \in SeqsUpTo(FileSamples, MaxFiles) :
          /\ files' = batch
          /\ fileIdx' = 0
    /\ pc' = "loop"
    /\ UNCHANGED <<args, ret, routes, colorIndex, alerts>>

\* one iteration of the for loop, resumed after the awaited read / parse
ProcessFile ==
    /\ pc = "loop" /\ fileIdx < Len(files)
    /\ LET app == processFile(files[fileIdx + 1],
                      [routes |-> routes, colorIndex |-> colorIndex, alerts |-> alerts])
       IN /\ routes' = app.routes
          /\ colorIndex' = app.colorIndex
          /\ alerts' = app.alerts
    /\ fileIdx' = fileIdx + 1
    /\ UNCHANGED <<pc, args, ret, files>>

\* the loop is over: fitToRoutes(this.routes), updateUI()
FinishBatch ==
    /\ pc = "loop" /\ fileIdx = Len(files)
    /\ pc' = "done"
    /\ UNCHANGED <<args, ret, files, fileIdx, routes, colorIndex, alerts>>

Next ==
    \/ HandleFiles
    \/ ProcessFile
    \/ FinishBatch

Spec == Init /\ [][Next]_vars

\* the error a file's import must raise, or "none": invalid XML, no track
\* points, or every point dropped for its coordinate (and the FIT analogues)
ExpectedError(file) ==
    IF file.ext \in {"gpx", "GPX"}
    THEN IF ~file.wellFormed THEN "Invalid XML"
         ELSE IF Len(file.points) = 0 THEN "No track points found"
         ELSE IF \A i \in 1..Len(file.points) :
                    ~CoordIsValid([lat |-> file.points[i].lat, lng |-> file.points[i].lon])
         THEN "No valid track points after validation"
         ELSE "none"
    ELSE IF file.ext \in {"fit", "FIT"}
    THEN IF file.parseError THEN "FIT parse error"
         ELSE IF Len(file.records) = 0 THEN "No data points found"
         ELSE IF \A i \in 1..Len(file.records) :
                    file.records[i].position_lat = Num(0)
         THEN "No valid GPS data found"
         ELSE "none"
    ELSE "Unsupported file type"

\* C6: a file whose import fails structurally raises its named error and adds
\* no route: routes and colorIndex count exactly the importable files handled so
\* far, in batch order and with consecutive colours, every failing file has left
\* one alert naming its error, and the loop reaches the end of the batch.
C6_FailedImportIsolated ==
    pc \in {"loop", "done"} =>
        LET handled == SubSeq(files, 1, fileIdx)
            good == SelectSeq(handled, LAMBDA f : ExpectedError(f) = "none")
            bad == SelectSeq(handled, LAMBDA f : ExpectedError(f) # "none")
        IN /\ Len(routes) = Len(good)
           /\ colorIndex = Len(good)
           /\ \A k \in 1..Len(good) :
                /\ routes[k].filename = good[k].name
                /\ routes[k].color = (k - 1) % 20
                /\ Len(routes[k].coordinates) >= 1
                /\ Len(routes[k].speeds) = Len(routes[k].coordinates)
           /\ Len(alerts) = Len(bad)
           /\ \A k \in 1..Len(bad) :
                /\ alerts[k].file = bad[k].name
                /\ alerts[k].message = ExpectedError(bad[k])
           /\ pc = "done" => fileIdx = Len(files)

\* a batch whose middle file lost all its points to validation: the files
\* before and after it were imported, in order
C6_Witness ==
    /\ pc = "done"
    /\ Len(files) = 3
    /\ files[1].name = "track.gpx" /\ files[2].name = "nowhere.gpx"
    /\ files[3].name = "ride.fit"
    /\ Len(routes) = 2 /\ colorIndex = 2
    /\ routes[1].filename = "track.gpx" /\ routes[2].filename = "ride.fit"
    /\ alerts = <<[kind |-> "failed", file |-> "nowhere.gpx",
                   message |-> "No valid track points after validation"]>>

----------------------------------------------------------------------------
(* Utils: outlier fences (filterOutliersIQR, filterOutliersMAD) *)

\* a variant that takes the median where the upper quartile belongs
iqrBounds_halfQ3(data, multiplier10) ==
    LET sorted == SortAscending(data)
        q1 == sorted[Len(sorted) \div 4 + 1]
        q3 == sorted[Len(sorted) \div 2 + 1]
        iqr == q3 - q1
    IN [lower10 |-> 10 * q1 - multiplier10 * iqr,
        upper10 |-> 10 * q3 + multiplier10 * iqr]

\* lowerBound and upperBound of filterOutliersIQR, times 10, for a multiplier
\* given in tenths: q1 and q3 sit at the 0-based indices floor(n * 0.25) and
\* floor(n * 0.75) of the sorted copy
iqrBounds(data, multiplier10) ==
    LET sorted == SortAscending(data)
        q1 == sorted[Len(sorted) \div 4 + 1]
        q3 == sorted[(3 * Len(sorted)) \div 4 + 1]
        iqr == q3 - q1
    IN [lower10 |-> 10 * q1 - multiplier10 * iqr,
        upper10 |-> 10 * q3 + multiplier10 * iqr]

filterOutliersIQR(data, multiplier10) ==
    IF Len(data) < 4 THEN data
    ELSE LET b == iqrBounds(data, multiplier10)
         IN SelectSeq(data, LAMBDA val : 10 * val >= b.lower10 /\ 10 * val <= b.upper10)

\* calculateMAD on a non-empty array: the median and the median absolute deviation
calculateMAD(arr) ==
    LET med == median(arr)
    IN [median |-> med, mad |-> median([k \in 1..Len(arr) |-> Abs(arr[k] - med)])]

\* 0.6745 * |val - median| / mad <= threshold, for mad > 0
withinModifiedZ(val, med, mad, threshold) ==
    6745 * Abs(val - med) <= threshold * 10000 * mad

filterOutliersMAD(data, threshold) ==
    IF Len(data) < 4 THEN data
    ELSE LET m == calculateMAD(data)
         IN IF m.mad = 0 THEN data
            ELSE SelectSeq(data, LAMBDA val : withinModifiedZ(val, m.median, m.mad, threshold))

----------------------------------------------------------------------------
(* Specification SpecStats: the statistics helpers called on sampled arrays *)

MaxValues == 6

\* the value at index i of a sampled array, in quarter units so that every
\* median is a whole number: i itself (1, 2, ...), the mirrored 7 - i, the
\* constant 3, or the outlier 100
OutlierValues(i) == {4 * i, 4 * (7 - i), 12, 400}

RECURSIVE ValueSeqs(_)
\* all arrays of at most n values, the value at index i from OutlierValues(i)
ValueSeqs(n) ==
    IF n = 0 THEN {<<>>}
    ELSE LET shorter == ValueSeqs(n - 1)
         IN shorter \cup {Append(s, v) : s \in {q \in shorter : Len(q) = n - 1},
                                          v \in OutlierValues(n)}

IQRCalls(n) ==
    {[fn |-> "filterOutliersIQR", data |-> d, multiplier10 |-> m] :
        d \in ValueSeqs(n), m \in {15, 5}}

MADCalls(n) ==
    {[fn |-> "filterOutliersMAD", data |-> d, threshold |-> t] :
        d \in ValueSeqs(n), t \in {3, 1}}

FilterOutliersIQR ==
    /\ pc = "call" /\ args.fn = "filterOutliersIQR"
    /\ ret' = filterOutliersIQR(args.data, args.multiplier10)
    /\ pc' = "return"
    /\ UNCHANGED <<args, appVars>>

FilterOutliersMAD ==
    /\ pc = "call" /\ args.fn = "filterOutliersMAD"
    /\ ret' = filterOutliersMAD(args.data, args.threshold)
    /\ pc' = "return"
    /\ UNCHANGED <<args, appVars>>

\* the Tukey fence by rank: q1 and q3 are the (floor(n/4) + 1)-th and the
\* (floor(3n/4) + 1)-th smallest values
InsideTukeyFence(data, multiplier10, val) ==
    LET q1 == KthSmallest(data, Len(data) \div 4 + 1)
        q3 == KthSmallest(data, (3 * Len(data)) \div 4 + 1)
    IN /\ 10 * val >= 10 * q1 - multiplier10 * (q3 - q1)
       /\ 10 * val <= 10 * q3 + multiplier10 * (q3 - q1)

MadByRank(data) ==
    MedianByRank([k \in 1..Len(data) |-> Abs(data[k] - MedianByRank(data))])

\* 1, 2, 3, 4, 5 and 100 (quarter units)
OneToFiveAndHundred == <<4, 8, 12, 16, 20, 400>>

\* C11: with fewer than 4 values (and, for the MAD filter, with a MAD of 0) the
\* input is returned unchanged; otherwise the result is the subsequence, in
\* input order, of the values inside the fence; 100 among 1..5 is removed and
\* 1..5 are kept.
C11_OutlierFences ==
    /\ Returned("filterOutliersIQR") =>
          /\ IF Len(args.data) < 4 THEN ret = args.data
             ELSE ret = SelectSeq(args.data,
                           LAMBDA v : InsideTukeyFence(args.data, args.multiplier10, v))
          /\ (args.data = OneToFiveAndHundred /\ args.multiplier10 = 15)
                => ret = <<4, 8, 12, 16, 20>>
    /\ Returned("filterOutliersMAD") =>
          /\ IF Len(args.data) < 4 \/ MadByRank(args.data) = 0 THEN ret = args.data
             ELSE ret = SelectSeq(args.data,
                           LAMBDA v : 6745 * Abs(v - MedianByRank(args.data))
                                        <= args.threshold * 10000 * MadByRank(args.data))
          /\ (args.data = OneToFiveAndHundred /\ args.threshold = 3)
                => ret = <<4, 8, 12, 16, 20>>

\* the MAD filter has removed 100 from 1, 2, 3, 4, 5, 100
C11_Witness ==
    /\ Returned("filterOutliersMAD")
    /\ args.data = OneToFiveAndHundred /\ args.threshold = 3
    /\ ret = <<4, 8, 12, 16, 20>>

----------------------------------------------------------------------------
(* Utils.decimateData *)

\* the for loop never advances (i += 0) and the call does not return
DoesNotReturn == [returns |-> FALSE]

\* the 0-based indices factor, 2 * factor, ... below len - 1, in loop order
decimatedIndices(len, factor) ==
    [k \in 1..((len - 2) \div factor) |-> k * factor]

decimateData(data, distances, factor) ==
    IF Len(data) <= factor * 2 THEN [data |-> data, distances |-> distances]
    ELSE IF factor = 0 /\ 0 < Len(data) - 1 THEN DoesNotReturn
    ELSE LET picked == IF factor = 0 THEN <<>> ELSE decimatedIndices(Len(data), factor)
         IN [data |-> <<data[1]>> \o [k \in 1..Len(picked) |-> data[picked[k] + 1]]
                        \o <<data[Len(data)]>>,
             distances |-> <<distances[1]>>
                        \o [k \in 1..Len(picked) |-> distances[picked[k] + 1]]
                        \o <<distances[Len(distances)]>>]

----------------------------------------------------------------------------
(* SpecStats, continued: elevation statistics and decimation *)

MaxElevs == 4

ElevSamples == {Null, NaN, Num(100), Num(150), Num(200)}

\* given is FALSE for a null argument
ElevCalls(n) ==
    {[fn |-> "calculateElevationStats", given |-> TRUE, elevations |-> e] :
        e \in SeqsUpTo(ElevSamples, n)}
    \cup {[fn |-> "calculateElevationStats", given |-> FALSE, elevations |-> <<>>]}

\* chart series of n points: the value at index i is 10 * i or missing, the
\* cumulative distance is i - 1
DecimateCalls(n) ==
    {[fn |-> "decimateData", data |-> d, distances |-> [i \in 1..Len(d) |-> i - 1],
      factor |-> f] :
        d \in {[i \in 1..len |-> IF i \in gaps THEN Null ELSE Num(10 * i)] :
                  len \in 1..n, gaps \in SUBSET {2}},
        f \in 0..3}

InitStats ==
    /\ pc = "call"
    /\ \/ args \in IQRCalls(MaxValues)
       \/ args \in MADCalls(MaxValues)
       \/ args \in ElevCalls(MaxElevs)
       \/ args \in DecimateCalls(MaxValues)
    /\ ret = Null
    /\ AppIdle

\* calculateElevationStats(elevations); !elevations covers the null argument
CalculateElevationStats ==
    /\ pc = "call" /\ args.fn = "calculateElevationStats"
    /\ ret' = IF ~args.given THEN [gain |-> 0, loss |-> 0, min |-> 0, max |-> 0]
              ELSE calculateElevationStats(args.elevations)
    /\ pc' = "return"
    /\ UNCHANGED <<args, appVars>>

DecimateData ==
    /\ pc = "call" /\ args.fn = "decimateData"
    /\ ret' = decimateData(args.data, args.distances, args.factor)
    /\ pc' = "return"
    /\ UNCHANGED <<args, appVars>>

NextStats ==
    \/ FilterOutliersIQR
    \/ FilterOutliersMAD
    \/ CalculateElevationStats
    \/ DecimateData

SpecStats == InitStats /\ [][NextStats]_vars

\* the non-null elevations, in original order
NonNullElevations(elevations) ==
    LET idx == SelectSeq([k \in 1..Len(elevations) |-> k],
                         LAMBDA k : elevations[k] \notin {Null, NaN})
    IN [k \in 1..Len(idx) |-> elevations[idx[k]].v]

RECURSIVE ClimbUpTo(_, _, _)
\* the sum over the first m values of the rises (sign = 1) or falls (sign = -1)
\* between consecutive values
ClimbUpTo(v, m, sign) ==
    IF m <= 1 THEN 0
    ELSE ClimbUpTo(v, m - 1, sign) + Max(sign * (v[m] - v[m - 1]), 0)

\* C12: gain is the sum of the rises and loss the sum of the falls between
\* consecutive non-null elevations (a null in between breaks no delta), min and
\* max range over the non-null values, gain - loss = last - first, and an
\* empty, null or all-null input gives all zeros.
C12_ElevationStats ==
    Returned("calculateElevationStats") =>
        LET v == NonNullElevations(args.elevations)
        IN IF ~args.given \/ Len(v) = 0
           THEN ret = [gain |-> 0, loss |-> 0, min |-> 0, max |-> 0]
           ELSE /\ ret.gain = ClimbUpTo(v, Len(v), 1)
                /\ ret.loss = ClimbUpTo(v, Len(v), -1)
                /\ \A k \in 1..Len(v) : ret.min <= v[k] /\ v[k] <= ret.max
                /\ \E k \in 1..Len(v) : ret.min = v[k]
                /\ \E k \in 1..Len(v) : ret.max = v[k]
                /\ ret.gain - ret.loss = v[Len(v)] - v[1]
                /\ args.elevations = <<Num(100), Null, Num(200)>> => ret.gain = 100

\* [100, null, 200] has gain 100 and no loss
C12_Witness ==
    /\ Returned("calculateElevationStats")
    /\ args.elevations = <<Num(100), Null, Num(200)>>
    /\ ret = [gain |-> 100, loss |-> 0, min |-> 100, max |-> 200]

\* C13: for every non-empty input and every factor >= 0 decimateData returns,
\* both outputs have the same length, each output starts and ends with the
\* first and last input element, no input index is emitted twice, and the
\* inputs come back unchanged when data.length <= 2 * factor.
C13_DecimateKeepsEnds ==
    Returned("decimateData") =>
        /\ ret # DoesNotReturn
        /\ Len(ret.data) = Len(ret.distances)
        /\ ret.data[1] = args.data[1]
        /\ ret.data[Len(ret.data)] = args.data[Len(args.data)]
        /\ ret.distances[1] = args.distances[1]
        /\ ret.distances[Len(ret.distances)] = args.distances[Len(args.distances)]
        /\ \A j, k \in 1..Len(ret.distances) :
              j # k => ret.distances[j] # ret.distances[k]
        /\ Len(args.data) <= 2 * args.factor =>
              ret = [data |-> args.data, distances |-> args.distances]

----------------------------------------------------------------------------
(* Utils: time gap analysis.  Distances are in mm, times in ms. *)

\* route.timestamps[i] for the 1-based index i; undefined past the array's end
timestampAt(route, i) ==
    IF i <= Len(route.timestamps) THEN route.timestamps[i] ELSE Undefined

\* a variant that records the last segment's length instead of the running total
mapStep_segmentOnly(route, startTime, i, cumulativeDistance, map) ==
    LET dist == haversineDistance(route.coordinates[i - 1], route.coordinates[i])
        ts == timestampAt(route, i)
    IN IF ts.t = "date"
       THEN [distances |-> Append(map.distances, dist),
             times |-> Append(map.times, ts.v - startTime)]
       ELSE map

\* one iteration of buildTimeDistanceMap's loop, after cumulativeDistance += dist:
\* the map with the entry of index i appended when timestamps[i] is truthy
mapStep(route, startTime, i, cumulativeDistance, map) ==
    LET ts == timestampAt(route, i)
    IN IF ts.t = "date"
       THEN [distances |-> Append(map.distances, cumulativeDistance),
             times |-> Append(map.times, ts.v - startTime)]
       ELSE map

RECURSIVE mapLoop(_, _, _, _, _)
mapLoop(route, startTime, i, cumulativeDistance, map) ==
    IF i > Len(route.coordinates) THEN map
    ELSE LET cum == cumulativeDistance
                      + haversineDistance(route.coordinates[i - 1], route.coordinates[i])
         IN mapLoop(route, startTime, i + 1, cum, mapStep(route, startTime, i, cum, map))

\* startTime = route.timestamps[0]?.getTime() is falsy for a missing first
\* timestamp and for the instant 0 (the epoch)
buildTimeDistanceMap(route) ==
    IF "timestamps" \notin DOMAIN route THEN Null
    ELSE IF Len(route.timestamps) = 0 THEN Null
    ELSE LET first == route.timestamps[1]
         IN IF first.t # "date" \/ first.v = 0 THEN Null
            ELSE LET map == mapLoop(route, first.v, 2, 0,
                                    [distances |-> <<0>>, times |-> <<0>>])
                 IN IF Len(map.distances) > 1 THEN map ELSE Null

RECURSIVE bracket(_, _, _, _)
\* the binary search of getTimeAtDistance and findIndexAtDistance on 1-based
\* indices: while (low < high - 1) { mid = floor((low + high) / 2); ... }
bracket(distances, target, low, high) ==
    IF ~(low < high - 1) THEN [low |-> low, high |-> high]
    ELSE LET mid == (low + high) \div 2
         IN IF distances[mid] <= target
            THEN bracket(distances, target, mid, high)
            ELSE bracket(distances, target, low, mid)

\* a variant that interpolates from the upper entry's time
interpolate_fromUpper(d1, d2, t1, t2, targetDistance) ==
    IF d2 = d1 THEN t1
    ELSE t2 + ((targetDistance - d1) * (t2 - t1)) \div (d2 - d1)

\* t1 + ratio * (t2 - t1) with ratio = (targetDistance - d1) / (d2 - d1)
interpolate(d1, d2, t1, t2, targetDistance) ==
    IF d2 = d1 THEN t1
    ELSE t1 + ((targetDistance - d1) * (t2 - t1)) \div (d2 - d1)

getTimeAtDistance(map, targetDistance) ==
    IF map = Null THEN Null
    ELSE IF Len(map.distances) < 2 THEN Null
    ELSE IF targetDistance > map.distances[Len(map.distances)] THEN Null
    ELSE IF targetDistance <= 0 THEN Num(0)
    ELSE LET b == bracket(map.distances, targetDistance, 1, Len(map.distances))
         IN Num(interpolate(map.distances[b.low], map.distances[b.high],
                            map.times[b.low], map.times[b.high], targetDistance))

\* a variant that takes the largest of the list
minOf_largest(values) ==
    CHOOSE m \in {values[k] : k \in 1..Len(values)} :
        \A k \in 1..Len(values) : m >= values[k]

\* Math.min(...maxDistances) of a non-empty list
minOf(values) ==
    CHOOSE m \in {values[k] : k \in 1..Len(values)} :
        \A k \in 1..Len(values) : m <= values[k]

\* comparisonRoutes.map(r => ({route, map})).filter(c => c.map !== null)
builtMaps(comparisonRoutes) ==
    SelectSeq([k \in 1..Len(comparisonRoutes) |->
                  [route |-> comparisonRoutes[k],
                   map |-> buildTimeDistanceMap(comparisonRoutes[k])]],
              LAMBDA c : c.map # Null)

\* a variant that subtracts the comparison's time from the reference's
gapPoint_reversed(refMap, compMaps, d) ==
    LET refTime == getTimeAtDistance(refMap, d)
        timed == SelectSeq(compMaps, LAMBDA c : getTimeAtDistance(c.map, d) # Null)
    IN [distance |-> d, referenceTime |-> refTime,
        comparisons |-> [k \in 1..Len(timed) |->
            [route |-> timed[k].route,
             time |-> getTimeAtDistance(timed[k].map, d).v,
             gap |-> refTime.v - getTimeAtDistance(timed[k].map, d).v]]]

\* the sample point of distance d, for a non-null reference time
gapPoint(refMap, compMaps, d) ==
    LET refTime == getTimeAtDistance(refMap, d)
        timed == SelectSeq(compMaps, LAMBDA c : getTimeAtDistance(c.map, d) # Null)
    IN [distance |-> d, referenceTime |-> refTime,
        comparisons |-> [k \in 1..Len(timed) |->
            [route |-> timed[k].route,
             time |-> getTimeAtDistance(timed[k].map, d).v,
             gap |-> getTimeAtDistance(timed[k].map, d).v - refTime.v]]]

\* a variant whose loop starts at sampleInterval
sampleDistances_fromFirst(maxDist, sampleInterval) ==
    [k \in 1..(maxDist \div sampleInterval) |-> k * sampleInterval]

\* the values of d in for (d = 0; d <= maxDist; d += sampleInterval), for a
\* positive sampleInterval: 0, sampleInterval, 2 * sampleInterval, ...
sampleDistances(maxDist, sampleInterval) ==
    [k \in 1..(maxDist \div sampleInterval + 1) |-> (k - 1) * sampleInterval]

calculateTimeGaps(referenceRoute, comparisonRoutes, sampleInterval) ==
    LET refMap == buildTimeDistanceMap(referenceRoute)
        compMaps == builtMaps(comparisonRoutes)
    IN IF refMap = Null THEN Null
       ELSE IF Len(compMaps) = 0 THEN Null
       ELSE LET maxDistances == <<refMap.distances[Len(refMap.distances)]>>
                    \o [k \in 1..Len(compMaps) |->
                           compMaps[k].map.distances[Len(compMaps[k].map.distances)]]
                maxDist == minOf(maxDistances)
                ds == sampleDistances(maxDist, sampleInterval)
                sampled == SelectSeq(ds, LAMBDA d : getTimeAtDistance(refMap, d) # Null)
                points == [k \in 1..Len(sampled) |-> gapPoint(refMap, compMaps, sampled[k])]
            IN [referenceRoute |-> referenceRoute,
                gaps |-> SelectSeq(points, LAMBDA pt : Len(pt.comparisons) > 0),
                maxDistance |-> maxDist]

----------------------------------------------------------------------------
(* Specification SpecTimeGap: the time gap utilities on sampled routes and maps *)

MaxRoute == 4

\* the point at index i of a sampled route: 2.2 m after the point of index
\* i - 1 or on top of it; stamped 30 s after the previous index, with the
\* previous index's instant, with an instant before the start, or not at all.
\* The first point is stamped 1 s or 0 s after the epoch, or not at all.
TrackPoints(i) ==
    IF i = 1
    THEN {[coord |-> Coord(0), time |-> t] : t \in {Null, DateOf(0), DateOf(1000)}}
    ELSE {[coord |-> Coord(lat), time |-> t] :
             lat \in {2 * (i - 1), 2 * (i - 2)},
             t \in {Null, DateOf(1000 + 30000 * (i - 1)), DateOf(1000 + 30000 * (i - 2)),
                    DateOf(500)}}

RECURSIVE Tracks(_)
\* all tracks of 1..n points, the point at index i from TrackPoints(i)
Tracks(n) ==
    IF n = 1 THEN {<<p>> : p \in TrackPoints(1)}
    ELSE LET shorter == Tracks(n - 1)
         IN shorter \cup {Append(s, p) : s \in {q \in shorter : Len(q) = n - 1},
                                          p \in TrackPoints(n)}

RouteOf(name, track) ==
    [filename |-> name, coordinates |-> Field(track, "coord"),
     timestamps |-> Field(track, "time")]

\* routes with every point stamped or not, plus a route without a timestamps
\* array, one with an empty array and one whose array is shorter than the track
SampleRoutes(n) ==
    {RouteOf("track.gpx", tr) : tr \in Tracks(n)}
    \cup {[filename |-> "plain.gpx", coordinates |-> <<Coord(0), Coord(2)>>],
          [filename |-> "empty.gpx", coordinates |-> <<Coord(0), Coord(2)>>,
           timestamps |-> <<>>],
          [filename |-> "short.gpx", coordinates |-> <<Coord(0), Coord(2), Coord(4)>>,
           timestamps |-> <<DateOf(1000), DateOf(31000)>>]}

\* the entry at index i of a sampled map: 1 m after the previous index or at
\* the same distance (m); 300 s after the previous index, at the same time, or
\* at 100 s
MapEntries(i) ==
    IF i = 1 THEN {[distance |-> 0, time |-> 0]}
    ELSE {[distance |-> d, time |-> t] :
             d \in {1000 * (i - 1), 1000 * (i - 2)},
             t \in {300 * (i - 1), 300 * (i - 2), 100}}

RECURSIVE EntrySeqs(_)
EntrySeqs(n) ==
    IF n = 1 THEN {<<e>> : e \in MapEntries(1)}
    ELSE LET shorter == EntrySeqs(n - 1)
         IN shorter \cup {Append(s, e) : s \in {q \in shorter : Len(q) = n - 1},
                                          e \in MapEntries(n)}

\* the maps buildTimeDistanceMap can return: at least two entries, from (0, 0)
SampleMaps(n) ==
    {[distances |-> Field(es, "distance"), times |-> Field(es, "time")] :
        es \in {q \in EntrySeqs(n) : Len(q) >= 2}}

TargetDistances == {-500, 0, 500, 1000, 1500, 2000, 2500, 3000, 3500, 4000, 4500}

BuildCalls(n) == {[fn |-> "buildTimeDistanceMap", route |-> r] : r \in SampleRoutes(n)}

GetTimeCalls(n) ==
    {[fn |-> "getTimeAtDistance", map |-> m, targetDistance |-> d] :
        m \in SampleMaps(n), d \in TargetDistances}

BuildTimeDistanceMap ==
    /\ pc = "call" /\ args.fn = "buildTimeDistanceMap"
    /\ ret' = buildTimeDistanceMap(args.route)
    /\ pc' = "return"
    /\ UNCHANGED <<args, appVars>>

GetTimeAtDistance ==
    /\ pc = "call" /\ args.fn = "getTimeAtDistance"
    /\ ret' = getTimeAtDistance(args.map, args.targetDistance)
    /\ pc' = "return"
    /\ UNCHANGED <<args, appVars>>

MaxComparisons == 2

\* a route of len points 4.4 m apart on the meridian, the point of index i
\* stamped start + 10 s * (i - 1) + delays[i]
PacedRoute(name, len, start, delays) ==
    [filename |-> name,
     coordinates |-> [i \in 1..len |-> Coord(4 * (i - 1))],
     timestamps |-> [i \in 1..len |-> DateOf(start + 10000 * (i - 1) + delays[i])]]

UntimedRoute ==
    [filename |-> "plain.gpx", coordinates |-> <<Coord(0), Coord(4), Coord(8)>>]

\* reference routes: steady over two or three points, one without timestamps,
\* one starting at the epoch
ReferenceRoutes ==
    {PacedRoute("ref.gpx", 3, 1000, <<0, 0, 0>>),
     PacedRoute("ref.gpx", 2, 1000, <<0, 0>>),
     UntimedRoute,
     PacedRoute("epoch.gpx", 3, 0, <<0, 0, 0>>)}

\* comparison routes: the same ground covered with every point reached 0, 3 or
\* 6 s late, a later start, a faster and a longer route, a route with a missing
\* timestamp in the middle, and a route without timestamps
ComparisonRoutes ==
    {PacedRoute("late.gpx", 3, 1000, <<0, a, b>>) : a, b \in {0, 3000, 6000}}
    \cup {PacedRoute("late.gpx", 2, 1000, <<0, a>>) : a \in {0, 3000, 6000}}
    \cup {PacedRoute("later.gpx", 3, 5000, <<0, 3000, 6000>>),
          PacedRoute("fast.gpx", 3, 1000, <<0, -2000, -4000>>),
          PacedRoute("long.gpx", 4, 1000, <<0, 0, 0, 0>>),
          [filename |-> "gap.gpx", coordinates |-> <<Coord(0), Coord(4), Coord(8)>>,
           timestamps |-> <<DateOf(1000), Null, DateOf(27000)>>],
          UntimedRoute}

\* sampleInterval: 2 m, or 2.222 m (a whole fraction of the 4.444 m between points)
SampleIntervals == {2000, 2222}

GapCalls(n) ==
    {[fn |-> "calculateTimeGaps", referenceRoute |-> r, comparisonRoutes |-> cs,
      sampleInterval |-> si] :
        r \in ReferenceRoutes, cs \in SeqsUpTo(ComparisonRoutes, n), si \in SampleIntervals}

InitTimeGap ==
    /\ pc = "call"
    /\ \/ args \in BuildCalls(MaxRoute)
       \/ args \in GetTimeCalls(MaxRoute)
       \/ args \in GapCalls(MaxComparisons)
    /\ ret = Null
    /\ AppIdle

CalculateTimeGaps ==
    /\ pc = "call" /\ args.fn = "calculateTimeGaps"
    /\ ret' = calculateTimeGaps(args.referenceRoute, args.comparisonRoutes,
                                args.sampleInterval)
    /\ pc' = "return"
    /\ UNCHANGED <<args, appVars>>

NextTimeGap ==
    \/ BuildTimeDistanceMap
    \/ GetTimeAtDistance
    \/ CalculateTimeGaps

SpecTimeGap == InitTimeGap /\ [][NextTimeGap]_vars

----------------------------------------------------------------------------
(* Claims about buildTimeDistanceMap and getTimeAtDistance (SpecTimeGap) *)

HasTimestamps(route) ==
    "timestamps" \in DOMAIN route /\ Len(route.timestamps) > 0

\* the 1-based indices of the route's points that carry a timestamp
StampedIndices(route) ==
    {i \in 1..Len(route.coordinates) :
        i <= Len(route.timestamps) /\ route.timestamps[i] # Null}

RECURSIVE DistanceUpTo(_, _)
\* the ground distance from the first point to the point of index i
DistanceUpTo(coords, i) ==
    IF i <= 1 THEN 0
    ELSE DistanceUpTo(coords, i - 1) + Abs(coords[i].lat.v - coords[i - 1].lat.v) * MmPerUnit

\* the stamped indices in increasing order
StampedInOrder(route) ==
    SelectSeq([i \in 1..Len(route.coordinates) |-> i],
              LAMBDA i : i \in StampedIndices(route))

\* C14: buildTimeDistanceMap returns null when the route has no timestamps
\* array, an empty one, no timestamp at index 0 or fewer than 2 timestamped
\* points, and otherwise a map with one (cumulative distance, elapsed time)
\* entry for exactly each later index that carries a timestamp.
C14_MapOrNull ==
    Returned("buildTimeDistanceMap") =>
        LET route == args.route
        IN IF \/ ~HasTimestamps(route)
              \/ route.timestamps[1] = Null
              \/ Cardinality(StampedIndices(route)) < 2
           THEN ret = Null
           ELSE /\ ret # Null
                /\ LET idx == StampedInOrder(route)
                   IN /\ Len(ret.distances) = Len(idx) /\ Len(ret.times) = Len(idx)
                      /\ \A k \in 2..Len(idx) :
                            /\ ret.distances[k] = DistanceUpTo(route.coordinates, idx[k])
                            /\ ret.times[k] = route.timestamps[idx[k]].v
                                                - route.timestamps[1].v

NonDecreasing(seq) == \A k \in 2..Len(seq) : seq[k - 1] <= seq[k]

\* a route as validateParsedData leaves it: one timestamp slot per point, the
\* non-null timestamps in chronological order
IsValidatedRoute(route) ==
    /\ "timestamps" \in DOMAIN route
    /\ Len(route.timestamps) = Len(route.coordinates)
    /\ \A i, j \in StampedIndices(route) :
          i < j => route.timestamps[i].v <= route.timestamps[j].v

\* C15: a map built for a validated route has distances and times of the same
\* length M, 2 <= M <= N, both starting at 0 and both non-decreasing, also
\* with repeated points and equal timestamps.
C15_MapAscending ==
    (Returned("buildTimeDistanceMap") /\ ret # Null /\ IsValidatedRoute(args.route)) =>
        /\ Len(ret.distances) = Len(ret.times)
        /\ 2 <= Len(ret.distances) /\ Len(ret.distances) <= Len(args.route.coordinates)
        /\ ret.distances[1] = 0 /\ ret.times[1] = 0
        /\ NonDecreasing(ret.distances)
        /\ NonDecreasing(ret.times)

\* a validated route whose second and third points coincide and carry the same
\* timestamp: the map repeats both the distance and the time
C15_Witness ==
    /\ Returned("buildTimeDistanceMap") /\ ret # Null /\ IsValidatedRoute(args.route)
    /\ Len(ret.distances) = 3
    /\ ret.distances[2] = ret.distances[3] /\ ret.distances[2] > 0
    /\ ret.times[2] = ret.times[3] /\ ret.times[2] > 0

\* C16: beyond the last distance the result is null, at or below 0 it is 0, on
\* a recorded distance it is a time recorded there, in between it is the linear
\* interpolation of the two bracketing entries and lies between their times;
\* with non-decreasing times the result does not decrease with the target.
C16_TimeAtDistance ==
    (Returned("getTimeAtDistance") /\ NonDecreasing(args.map.distances)) =>
        LET d == args.map.distances
            t == args.map.times
            x == args.targetDistance
            lo == CHOOSE k \in 1..Len(d) : d[k] < x /\ \A j \in 1..Len(d) : d[j] < x => j <= k
        IN /\ x > d[Len(d)] => ret = Null
           /\ (x <= d[Len(d)] /\ x <= 0) => ret = Num(0)
           /\ (0 < x /\ x <= d[Len(d)]) =>
                /\ ret # Null
                /\ IF \E k \in 1..Len(d) : d[k] = x
                   THEN \E k \in 1..Len(d) : d[k] = x /\ ret.v = t[k]
                   ELSE /\ ret.v = t[lo] + ((x - d[lo]) * (t[lo + 1] - t[lo]))
                                              \div (d[lo + 1] - d[lo])
                        /\ Min(t[lo], t[lo + 1]) <= ret.v
                        /\ ret.v <= Max(t[lo], t[lo + 1])
           /\ (NonDecreasing(t) /\ ret # Null) =>
                \A y \in TargetDistances :
                    y <= x => getTimeAtDistance(args.map, y).v <= ret.v
           /\ (d = <<0, 1000, 2000>> /\ t = <<0, 300, 600>>) =>
                /\ x = 2000 => ret = Num(600)
                /\ x = 1500 => ret = Num(450)

\* the midpoint of the second interval of {distances: [0, 1, 2], times: [0, 300, 600]}
C16_Witness ==
    /\ Returned("getTimeAtDistance")
    /\ args.map = [distances |-> <<0, 1000, 2000>>, times |-> <<0, 300, 600>>]
    /\ args.targetDistance = 1500
    /\ ret = Num(450)

----------------------------------------------------------------------------
(* Claims about calculateTimeGaps (SpecTimeGap) *)

\* the comparison routes whose map can be built, in input order
SurvivingRoutes(comparisonRoutes) ==
    SelectSeq(comparisonRoutes, LAMBDA r : buildTimeDistanceMap(r) # Null)

\* the last distance of the route's map
LastMapped(route) ==
    LET map == buildTimeDistanceMap(route) IN map.distances[Len(map.distances)]

\* C17: the result is null exactly when the reference map cannot be built or
\* no comparison yields a map; otherwise no sample mentions a comparison whose
\* map failed, and maxDistance is the least last mapped distance over the
\* reference and the surviving comparisons.
C17_NullOrCommonRange ==
    Returned("calculateTimeGaps") =>
        LET surviving == SurvivingRoutes(args.comparisonRoutes)
            common == {args.referenceRoute} \cup {surviving[k] : k \in 1..Len(surviving)}
        IN /\ ret = Null <=> (\/ buildTimeDistanceMap(args.referenceRoute) = Null
                              \/ Len(surviving) = 0)
           /\ ret # Null =>
                /\ \A s \in 1..Len(ret.gaps) :
                      \A c \in 1..Len(ret.gaps[s].comparisons) :
                          buildTimeDistanceMap(ret.gaps[s].comparisons[c].route) # Null
                /\ \A r \in common : ret.maxDistance <= LastMapped(r)
                /\ \E r \in common : ret.maxDistance = LastMapped(r)

\* a three-point reference compared with a route without timestamps and a
\* two-point route: the first is dropped, the second bounds the common range
C17_Witness ==
    /\ Returned("calculateTimeGaps") /\ ret # Null
    /\ args.referenceRoute = PacedRoute("ref.gpx", 3, 1000, <<0, 0, 0>>)
    /\ args.comparisonRoutes = <<UntimedRoute, PacedRoute("late.gpx", 2, 1000, <<0, 3000>>)>>
    /\ ret.maxDistance = 4 * MmPerUnit
    /\ \A s \in 1..Len(ret.gaps) : Len(ret.gaps[s].comparisons) = 1

\* C18: there is exactly one sample per distance 0, interval, 2 * interval, ...
\* up to maxDistance, in increasing order; each holds one entry per surviving
\* comparison, in input order, with gap = comparison time - reference time at
\* that distance; at distance 0 every gap is 0.
C18_SampleSeries ==
    (Returned("calculateTimeGaps") /\ ret # Null) =>
        LET surviving == SurvivingRoutes(args.comparisonRoutes)
            refMap == buildTimeDistanceMap(args.referenceRoute)
        IN /\ Len(ret.gaps) = ret.maxDistance \div args.sampleInterval + 1
           /\ \A s \in 1..Len(ret.gaps) :
                LET d == (s - 1) * args.sampleInterval
                    point == ret.gaps[s]
                IN /\ point.distance = d
                   /\ Len(point.comparisons) = Len(surviving)
                   /\ \A c \in 1..Len(surviving) :
                        /\ point.comparisons[c].route = surviving[c]
                        /\ point.comparisons[c].gap =
                              getTimeAtDistance(buildTimeDistanceMap(surviving[c]), d).v
                                - getTimeAtDistance(refMap, d).v
                        /\ d = 0 => point.comparisons[c].gap = 0

\* two surviving comparisons sampled every 2 m over 8.9 m: five samples of two
\* entries each, the slower route behind at the last one
C18_Witness ==
    /\ Returned("calculateTimeGaps") /\ ret # Null
    /\ args.sampleInterval = 2000
    /\ Len(SurvivingRoutes(args.comparisonRoutes)) = 2
    /\ Len(ret.gaps) = 5
    /\ ret.gaps[5].distance = 8000
    /\ ret.gaps[5].comparisons[1].gap > 0
    /\ ret.gaps[5].comparisons[2].gap < 0

\* elapsed time of the route at the point of index i
ElapsedAt(route, i) == route.timestamps[i].v - route.timestamps[1].v

\* one comparison over the reference's ground, stamped at every point, that
\* reaches every point no earlier than the reference
SameGroundNoEarlier(reference, comparison) ==
    /\ HasTimestamps(reference) /\ HasTimestamps(comparison)
    /\ reference.timestamps[1] # DateOf(0) /\ comparison.timestamps[1] # DateOf(0)
    /\ comparison.coordinates = reference.coordinates
    /\ Len(reference.timestamps) = Len(reference.coordinates)
    /\ Len(comparison.timestamps) = Len(comparison.coordinates)
    /\ \A i \in 1..Len(reference.coordinates) :
          /\ reference.timestamps[i] # Null /\ comparison.timestamps[i] # Null
          /\ ElapsedAt(comparison, i) >= ElapsedAt(reference, i)

\* D: how much later the comparison finishes
FinishDelay(reference, comparison) ==
    ElapsedAt(comparison, Len(comparison.coordinates))
        - ElapsedAt(reference, Len(reference.coordinates))

\* the final gap is D * (final sample distance / route distance), to the
\* millisecond
FinalGapScaled(result, reference, comparison) ==
    LET final == result.gaps[Len(result.gaps)]
        total == LastMapped(reference)
    IN Abs(final.comparisons[1].gap * total
             - FinishDelay(reference, comparison) * final.distance) <= total

\* the comparison falls behind in proportion to the distance covered
DelayProportional(reference, comparison) ==
    \A i \in 1..Len(reference.coordinates) :
        (ElapsedAt(comparison, i) - ElapsedAt(reference, i)) * LastMapped(reference)
            = FinishDelay(reference, comparison)
                * DistanceUpTo(reference.coordinates, i)

\* C19 as stated: over the same ground, with every point reached no earlier
\* and the finish D later, every sampled gap is >= 0 and the final sample's gap
\* is D scaled by final sample distance / route distance.
C19_FinalGapAlways ==
    (/\ Returned("calculateTimeGaps") /\ ret # Null
     /\ Len(args.comparisonRoutes) = 1
     /\ SameGroundNoEarlier(args.referenceRoute, args.comparisonRoutes[1])) =>
        /\ \A s \in 1..Len(ret.gaps) : ret.gaps[s].comparisons[1].gap >= 0
        /\ FinalGapScaled(ret, args.referenceRoute, args.comparisonRoutes[1])

\* C19, amended: every sampled gap is >= 0; a final sample at the end of the
\* route has gap D; and the final gap is D scaled by final sample distance /
\* route distance when the delay at every point is proportional to the
\* distance covered (as for any two-point routes).
C19_FinalGapWhenProportional ==
    (/\ Returned("calculateTimeGaps") /\ ret # Null
     /\ Len(args.comparisonRoutes) = 1
     /\ SameGroundNoEarlier(args.referenceRoute, args.comparisonRoutes[1])) =>
        LET reference == args.referenceRoute
            comparison == args.comparisonRoutes[1]
            final == ret.gaps[Len(ret.gaps)]
        IN /\ \A s \in 1..Len(ret.gaps) : ret.gaps[s].comparisons[1].gap >= 0
           /\ final.distance = LastMapped(reference) =>
                final.comparisons[1].gap = FinishDelay(reference, comparison)
           /\ DelayProportional(reference, comparison) =>
                FinalGapScaled(ret, reference, comparison)

\* three points, the comparison 3 s late at the middle and 6 s late at the
\* end, sampled every 2 m: the last sample, at 8 m of 8.9 m, shows 5.4 s
C19_Witness ==
    /\ Returned("calculateTimeGaps") /\ ret # Null
    /\ args.referenceRoute = PacedRoute("ref.gpx", 3, 1000, <<0, 0, 0>>)
    /\ args.comparisonRoutes = <<PacedRoute("late.gpx", 3, 1000, <<0, 3000, 6000>>)>>
    /\ args.sampleInterval = 2000
    /\ ret.gaps[Len(ret.gaps)].distance = 8000
    /\ ret.gaps[Len(ret.gaps)].comparisons[1].gap \in 5399..5401

----------------------------------------------------------------------------
(* Utils: split comparison -- findIndexAtDistance.  Indices are 0-based. *)

findIndexAtDistance(distances, targetKm) ==
    IF Len(distances) = 0 THEN 0
    ELSE IF targetKm <= 0 THEN 0
    ELSE IF targetKm >= distances[Len(distances)] THEN Len(distances) - 1
    ELSE bracket(distances, targetKm, 1, Len(distances)).low - 1

RECURSIVE segmentDistance(_, _, _)
\* calculateSplitPace's loop: the haversine sum over i = startIdx + 1 .. endIdx
\* (0-based indices, mm)
segmentDistance(coordinates, startIdx, endIdx) ==
    IF startIdx >= endIdx THEN 0
    ELSE segmentDistance(coordinates, startIdx, endIdx - 1)
         + haversineDistance(coordinates[endIdx], coordinates[endIdx + 1])

\* a variant without the upper pace limit
paceInRange_noLimit(durationMs, segmentMm) == durationMs > 0

\* paceMinPerKm > 0 && paceMinPerKm < 30 for positive duration and distance:
\* (durationMs / 60000) / (segmentMm / 10^6) < 30
paceInRange(durationMs, segmentMm) ==
    durationMs > 0 /\ durationMs * 1000 < 30 * 60 * segmentMm

\* The pace is in s/km (durationMs * 1000 / segmentMm), rounded down.  An
\* Invalid Date is truthy, gives a NaN duration and a NaN pace, and NaN fails
\* both comparisons of the final range test.
calculateSplitPace(route, startIdx, endIdx) ==
    IF "timestamps" \notin DOMAIN route \/ startIdx >= endIdx THEN Null
    ELSE LET startTime == timestampAt(route, startIdx + 1)
             endTime == timestampAt(route, endIdx + 1)
         IN IF Falsy(startTime) \/ Falsy(endTime) THEN Null
            ELSE IF startTime.t # "date" \/ endTime.t # "date" THEN Null
            ELSE LET durationMs == endTime.v - startTime.v
                     segment == segmentDistance(route.coordinates, startIdx, endIdx)
                 IN IF durationMs <= 0 THEN Null
                    ELSE IF segment <= 0 THEN Null
                    ELSE IF paceInRange(durationMs, segment)
                         THEN Num((durationMs * 1000) \div segment)
                         ELSE Null

\* elevations[i] for the 0-based index i; undefined past the array's end
elevationAt(elevations, i) ==
    IF i + 1 <= Len(elevations) THEN elevations[i + 1] ELSE Undefined

RECURSIVE elevGainLoop(_, _, _)
\* calculateSplitElevGain's loop over i = startIdx + 1 .. endIdx
elevGainLoop(elevations, startIdx, endIdx) ==
    IF startIdx >= endIdx THEN 0
    ELSE LET prev == elevationAt(elevations, endIdx - 1)
             curr == elevationAt(elevations, endIdx)
         IN elevGainLoop(elevations, startIdx, endIdx - 1)
            + (IF prev.t = "num" /\ curr.t = "num" /\ curr.v - prev.v > 0
               THEN curr.v - prev.v ELSE 0)

\* calculateSplitElevGain(route.elevations, startIdx, endIdx); a route without
\* an elevations array passes undefined
calculateSplitElevGain(route, startIdx, endIdx) ==
    IF "elevations" \notin DOMAIN route \/ startIdx >= endIdx THEN 0
    ELSE elevGainLoop(route.elevations, startIdx, endIdx)

RECURSIVE SumSeq(_)
\* valid.reduce((a, b) => a + b, 0)
SumSeq(values) ==
    IF Len(values) = 0 THEN 0 ELSE values[1] + SumSeq(Tail(values))

\* calculateSplitAvg(route.heartRates, startIdx, endIdx): the mean of the valid
\* values of arr.slice(startIdx, endIdx + 1), rounded down
calculateSplitAvg(route, startIdx, endIdx) ==
    IF "heartRates" \notin DOMAIN route \/ startIdx >= endIdx THEN Null
    ELSE LET arr == route.heartRates
             segment == SubSeq(arr, startIdx + 1, Min(endIdx + 1, Len(arr)))
             valid == SelectSeq(segment, LAMBDA v : v.t = "num")
         IN IF Len(valid) = 0 THEN Null
            ELSE Num(SumSeq(Field(valid, "v")) \div Len(valid))

\* calculateSplits' cumulative distances (mm), one per coordinate
cumulativeDistances(coordinates) ==
    [i \in 1..Len(coordinates) |-> DistanceUpTo(coordinates, i)]

\* a variant whose window starts one index after the previous window's end
splitStartIdx_next(distances, startKm) ==
    IF startKm <= 0 THEN 0
    ELSE Min(findIndexAtDistance(distances, startKm) + 1, Len(distances) - 1)

\* const startIdx = this.findIndexAtDistance(distances, startKm)
splitStartIdx(distances, startKm) == findIndexAtDistance(distances, startKm)

\* a variant that always takes a whole window
splitEndKm_whole(currentKm, splitDistanceKm, totalDistance) ==
    currentKm + splitDistanceKm

\* const endKm = Math.min(currentKm + splitDistanceKm, totalDistance)
splitEndKm(currentKm, splitDistanceKm, totalDistance) ==
    Min(currentKm + splitDistanceKm, totalDistance)

\* the body of calculateSplits' while loop: the split starting at currentKm.
\* isPartial is (endKm - startKm) < splitDistanceKm * 0.9
splitAt(route, distances, splitNum, currentKm, splitDistanceKm) ==
    LET totalDistance == distances[Len(distances)]
        startKm == currentKm
        endKm == splitEndKm(currentKm, splitDistanceKm, totalDistance)
        startIdx == splitStartIdx(distances, startKm)
        endIdx == findIndexAtDistance(distances, endKm)
    IN [number |-> splitNum,
        startKm |-> startKm,
        endKm |-> endKm,
        distance |-> endKm - startKm,
        isPartial |-> (endKm - startKm) * 10 < splitDistanceKm * 9,
        pace |-> calculateSplitPace(route, startIdx, endIdx),
        elevGain |-> calculateSplitElevGain(route, startIdx, endIdx),
        avgHR |-> calculateSplitAvg(route, startIdx, endIdx)]

RECURSIVE splitLoop(_, _, _, _, _, _)
\* while (currentKm < totalDistance) { ...; currentKm += splitDistanceKm; splitNum++ }
splitLoop(route, distances, splitNum, currentKm, splitDistanceKm, splits) ==
    IF ~(currentKm < distances[Len(distances)]) THEN splits
    ELSE splitLoop(route, distances, splitNum + 1, currentKm + splitDistanceKm,
                   splitDistanceKm,
                   Append(splits, splitAt(route, distances, splitNum, currentKm,
                                          splitDistanceKm)))

\* the while loop ends iff currentKm reaches totalDistance: at once for a
\* route of no length, and otherwise only if the step is positive
splitsTerminate(route, splitDistanceKm) ==
    \/ Len(route.coordinates) < 2
    \/ DistanceUpTo(route.coordinates, Len(route.coordinates)) <= 0
    \/ splitDistanceKm > 0

\* defined for the calls that return
calculateSplits(route, splitDistanceKm) ==
    IF Len(route.coordinates) < 2 THEN <<>>
    ELSE splitLoop(route, cumulativeDistances(route.coordinates), 1, 0,
                   splitDistanceKm, <<>>)

----------------------------------------------------------------------------
(* Specification SpecSplits: the split utilities on sampled distance arrays *)

\* cumulative-distance arrays of 1..n entries: from 0, each entry 1 m after
\* the previous index or repeating it
DistanceArrays(n) == {Field(es, "distance") : es \in EntrySeqs(n)}

FindIndexCalls(n) ==
    {[fn |-> "findIndexAtDistance", distances |-> ds, targetKm |-> x] :
        ds \in DistanceArrays(n), x \in TargetDistances}

\* the point at index i of a sampled route, 2.2 m after the point of index
\* i - 1 or on top of it: not stamped, stamped 1 s per index (7.5 min/km over
\* 2.2 m) or stamped 60 s per index (slower than 30 min/km)
TimedPoints(i) ==
    {[coord |-> Coord(lat), time |-> t] :
        lat \in {2 * (i - 1), 2 * Max(i - 2, 0)},
        t \in {Null, DateOf(1000 + 1000 * (i - 1)), DateOf(1000 + 60000 * (i - 1))}}

\* the same ground with an elevation per point: none, 10 m per index, or 5 m;
\* the first point's elevation may also be NaN
ClimbPoints(i) ==
    {[coord |-> Coord(lat), elev |-> e] :
        lat \in {2 * (i - 1), 2 * Max(i - 2, 0)},
        e \in {Null, Num(10 * i), Num(5)} \cup (IF i = 1 THEN {NaN} ELSE {})}

RECURSIVE TimedTracks(_)
TimedTracks(n) ==
    IF n = 1 THEN {<<p>> : p \in TimedPoints(1)}
    ELSE LET shorter == TimedTracks(n - 1)
         IN shorter \cup {Append(s, p) : s \in {q \in shorter : Len(q) = n - 1},
                                          p \in TimedPoints(n)}

RECURSIVE ClimbTracks(_)
ClimbTracks(n) ==
    IF n = 1 THEN {<<p>> : p \in ClimbPoints(1)}
    ELSE LET shorter == ClimbTracks(n - 1)
         IN shorter \cup {Append(s, p) : s \in {q \in shorter : Len(q) = n - 1},
                                          p \in ClimbPoints(n)}

\* routes with timestamps only, routes with elevations only, and one route
\* with every per-point array, its timestamps array one entry short
SplitRoutes(n) ==
    {RouteOf("run.gpx", tr) : tr \in TimedTracks(n)}
    \cup {[filename |-> "hill.gpx", coordinates |-> Field(tr, "coord"),
           elevations |-> Field(tr, "elev")] : tr \in ClimbTracks(n)}
    \cup {[filename |-> "ride.fit",
           coordinates |-> <<Coord(0), Coord(2), Coord(4)>>,
           timestamps |-> <<DateOf(1000), DateOf(2000)>>,
           elevations |-> <<Num(10), Num(20), Num(30)>>,
           heartRates |-> <<Num(120), Null, Num(141)>>]}

\* split distances (mm): none, and windows that end inside, just short of and
\* beyond the sampled routes
SplitDistances == {0, 1000, 2300, 2400, 5000}

SplitCalls(n) ==
    {[fn |-> "calculateSplits", route |-> r, splitDistanceKm |-> d] :
        r \in SplitRoutes(n), d \in SplitDistances}

InitSplits ==
    /\ pc = "call"
    /\ \/ args \in FindIndexCalls(MaxRoute)
       \/ args \in SplitCalls(MaxRoute)
    /\ ret = Null
    /\ AppIdle

FindIndexAtDistance ==
    /\ pc = "call" /\ args.fn = "findIndexAtDistance"
    /\ ret' = Num(findIndexAtDistance(args.distances, args.targetKm))
    /\ pc' = "return"
    /\ UNCHANGED <<args, appVars>>

\* a call whose while loop never ends stays in the loop
CalculateSplits ==
    /\ pc = "call" /\ args.fn = "calculateSplits"
    /\ IF splitsTerminate(args.route, args.splitDistanceKm)
       THEN /\ ret' = calculateSplits(args.route, args.splitDistanceKm)
            /\ pc' = "return"
       ELSE /\ pc' = "loop"
            /\ ret' = ret
    /\ UNCHANGED <<args, appVars>>

NextSplits ==
    \/ FindIndexAtDistance
    \/ CalculateSplits

SpecSplits == InitSplits /\ [][NextSplits]_vars

\* C20: for a non-empty non-decreasing array the result is the last 0-based
\* index whose distance is <= target, or 0 when the target is below the first
\* distance (and so length - 1 at or beyond the last), repeated distances and
\* leading zeros included.
C20_LastIndexAtOrBelow ==
    (Returned("findIndexAtDistance") /\ Len(args.distances) > 0
        /\ NonDecreasing(args.distances)) =>
        LET d == args.distances
            atOrBelow == {k \in 1..Len(d) : d[k] <= args.targetKm}
        IN ret.v = IF atOrBelow = {} THEN 0
                   ELSE (CHOOSE k \in atOrBelow : \A j \in atOrBelow : j <= k) - 1

----------------------------------------------------------------------------
(* Claims about calculateSplits (SpecSplits) *)

RouteDistance(route) == DistanceUpTo(route.coordinates, Len(route.coordinates))

RECURSIVE SplitDistanceSum(_, _)
\* the sum of the distances of the first k splits
SplitDistanceSum(splits, k) ==
    IF k = 0 THEN 0 ELSE SplitDistanceSum(splits, k - 1) + splits[k].distance

\* C21: for a route of at least 2 coordinates and a positive split distance
\* calculateSplits returns; the splits are numbered 1..k, start at 0, each
\* starts where the previous one ends, the last ends at the total distance and
\* the distances add up to it; every split but the last has the split
\* distance; isPartial marks exactly the splits shorter than 90% of the split
\* distance, which only the last can be.  Fewer than 2 coordinates give <<>>.
C21_SplitsTile ==
    /\ (pc = "loop" /\ args.fn = "calculateSplits") =>
          ~(Len(args.route.coordinates) >= 2 /\ args.splitDistanceKm > 0)
    /\ (Returned("calculateSplits") /\ Len(args.route.coordinates) < 2) => ret = <<>>
    /\ (/\ Returned("calculateSplits")
        /\ Len(args.route.coordinates) >= 2
        /\ args.splitDistanceKm > 0) =>
          LET k == Len(ret)
              total == RouteDistance(args.route)
              splitKm == args.splitDistanceKm
          IN /\ \A j \in 1..k : ret[j].number = j
             /\ IF k = 0 THEN total = 0
                ELSE ret[1].startKm = 0 /\ ret[k].endKm = total
             /\ \A j \in 2..k : ret[j].startKm = ret[j - 1].endKm
             /\ \A j \in 1..k : ret[j].distance = ret[j].endKm - ret[j].startKm
             /\ SplitDistanceSum(ret, k) = total
             /\ \A j \in 1..(k - 1) : ret[j].distance = splitKm /\ ~ret[j].isPartial
             /\ \A j \in 1..k : ret[j].isPartial <=> (ret[j].distance * 10 < splitKm * 9)

\* 4.4 m in windows of 2.4 m: a whole split and a partial one of 2.04 m
C21_Witness ==
    /\ Returned("calculateSplits")
    /\ RouteDistance(args.route) = 4444
    /\ args.splitDistanceKm = 2400
    /\ Len(ret) = 2 /\ ret[2].distance = 2044 /\ ret[2].isPartial
    /\ ~ret[1].isPartial

\* the 0-based start and end index calculateSplits resolves for a split
StartIdxOf(route, split) ==
    findIndexAtDistance(cumulativeDistances(route.coordinates), split.startKm)

EndIdxOf(route, split) ==
    findIndexAtDistance(cumulativeDistances(route.coordinates), split.endKm)

\* the timestamp of the 0-based index i is missing
StampMissing(route, i) ==
    \/ "timestamps" \notin DOMAIN route
    \/ i + 1 > Len(route.timestamps)
    \/ route.timestamps[i + 1] = Null

\* the pace the claim prescribes for the index range s..e (s/km, rounded down)
PaceOfRange(route, s, e) ==
    IF StampMissing(route, s) \/ StampMissing(route, e) \/ s = e THEN Null
    ELSE LET elapsedMs == route.timestamps[e + 1].v - route.timestamps[s + 1].v
             ground == DistanceUpTo(route.coordinates, e + 1)
                         - DistanceUpTo(route.coordinates, s + 1)
         IN IF elapsedMs <= 0 \/ ground <= 0 THEN Null
            ELSE IF elapsedMs * 1000 < 1800 * ground
                 THEN Num((elapsedMs * 1000) \div ground)
                 ELSE Null

\* C22: a split's pace is null when the timestamp at its start or end index
\* is missing, the two indices coincide, the elapsed time is <= 0 or the
\* segment distance is <= 0; otherwise it is elapsed time over segment
\* distance, reported only strictly between 0 and 30 min/km.  Every split of
\* a route without timestamps has pace null.
C22_SplitPace ==
    Returned("calculateSplits") =>
        \A j \in 1..Len(ret) :
            /\ ret[j].pace = PaceOfRange(args.route, StartIdxOf(args.route, ret[j]),
                                         EndIdxOf(args.route, ret[j]))
            /\ "timestamps" \notin DOMAIN args.route => ret[j].pace = Null
            /\ (\A i \in 1..Len(args.route.coordinates) :
                    StampMissing(args.route, i - 1)) => ret[j].pace = Null

\* a fully stamped route with one split at 7.5 min/km and one slower than
\* 30 min/km, whose pace is withheld
C22_Witness ==
    /\ Returned("calculateSplits")
    /\ \A i \in 1..Len(args.route.coordinates) : ~StampMissing(args.route, i - 1)
    /\ \E j \in 1..Len(ret) : ret[j].pace = Num(450)
    /\ \E j \in 1..Len(ret) :
          /\ ret[j].pace = Null
          /\ StartIdxOf(args.route, ret[j]) < EndIdxOf(args.route, ret[j])
          /\ args.route.timestamps[EndIdxOf(args.route, ret[j]) + 1].v
               > args.route.timestamps[StartIdxOf(args.route, ret[j]) + 1].v

RECURSIVE RouteClimb(_, _)
\* the sum of the positive elevation differences over the adjacent pairs of
\* the first m points whose two elevations are numbers
RouteClimb(elevations, m) ==
    IF m <= 1 THEN 0
    ELSE RouteClimb(elevations, m - 1)
         + (IF elevations[m].t = "num" /\ elevations[m - 1].t = "num"
            THEN Max(elevations[m].v - elevations[m - 1].v, 0) ELSE 0)

RECURSIVE ElevGainSum(_, _)
ElevGainSum(splits, k) ==
    IF k = 0 THEN 0 ELSE ElevGainSum(splits, k - 1) + splits[k].elevGain

\* consecutive splits share their boundary index, from index 0 to index N - 1
SplitsShareBoundaries(route, splits) ==
    LET k == Len(splits)
    IN /\ \A j \in 2..k : StartIdxOf(route, splits[j]) = EndIdxOf(route, splits[j - 1])
       /\ k > 0 => /\ StartIdxOf(route, splits[1]) = 0
                   /\ EndIdxOf(route, splits[k]) = Len(route.coordinates) - 1

\* C28: for every route, consecutive splits share their boundary index (first
\* start index 0, last end index N - 1), so the elevGain of all splits adds up
\* to the sum of the positive elevation differences over all adjacent point
\* pairs of the route whose two elevations are non-null.
C28_ElevGainAdds ==
    (Returned("calculateSplits") /\ "elevations" \in DOMAIN args.route) =>
        /\ SplitsShareBoundaries(args.route, ret)
        /\ ElevGainSum(ret, Len(ret))
             = RouteClimb(args.route.elevations, Len(args.route.elevations))

\* C28, amended: the boundary indices are shared for every route; the
\* elevGain of all splits adds up to the route's climb when the route has a
\* positive total distance, and a route of no length has no splits at all.
C28_ElevGainAddsOverDistance ==
    (Returned("calculateSplits") /\ "elevations" \in DOMAIN args.route) =>
        /\ SplitsShareBoundaries(args.route, ret)
        /\ RouteDistance(args.route) > 0 =>
              ElevGainSum(ret, Len(ret))
                = RouteClimb(args.route.elevations, Len(args.route.elevations))
        /\ (Len(args.route.coordinates) >= 2 /\ RouteDistance(args.route) = 0) =>
              ret = <<>>

\* a climbing route cut into several splits, two of which gain height
C28_Witness ==
    /\ Returned("calculateSplits") /\ "elevations" \in DOMAIN args.route
    /\ Len(ret) >= 2
    /\ ret[1].elevGain > 0 /\ ret[2].elevGain > 0
    /\ ElevGainSum(ret, Len(ret)) = 30

----------------------------------------------------------------------------
(* Utils.calculateZones, as the specification's section 4.9 describes it.   *)
(* Values are integers, times ms; zones[z + 1] is the zone of index z.       *)

\* "requires >= 10 non-null values, else null"
MinZoneSamples == 10
\* "divides into 5 equal-width bins"
NumZones == 5

\* the non-null values, in order
validValues(values) ==
    LET idx == SelectSeq([k \in 1..Len(values) |-> k], LAMBDA k : values[k].t = "num")
    IN [k \in 1..Len(idx) |-> values[idx[k]].v]

\* the largest (sign = 1) or smallest (sign = -1) of a non-empty list
extremeOf(nums, sign) ==
    CHOOSE m \in {nums[k] : k \in 1..Len(nums)} :
        \A k \in 1..Len(nums) : sign * m >= sign * nums[k]

\* the bin of width (maxVal - minVal) / 5 that holds v, the top value in the
\* last bin; a series of equal values has a single bin, the first
zoneIndex(v, minVal, maxVal) ==
    IF maxVal = minVal THEN 0
    ELSE Min(NumZones - 1, (NumZones * (v - minVal)) \div (maxVal - minVal))

\* the elapsed time the sample of index i brings to its zone: the time since
\* the previous sample when both timestamps are present and time has advanced
zoneDelta(values, timestamps, i) ==
    IF /\ values[i].t = "num"
       /\ i <= Len(timestamps)
       /\ timestamps[i].t = "date" /\ timestamps[i - 1].t = "date"
       /\ timestamps[i].v > timestamps[i - 1].v
    THEN timestamps[i].v - timestamps[i - 1].v
    ELSE 0

RECURSIVE zoneTime(_, _, _, _, _, _)
\* the time attributed to zone z by the samples 2..i
zoneTime(values, timestamps, minVal, maxVal, z, i) ==
    IF i < 2 THEN 0
    ELSE zoneTime(values, timestamps, minVal, maxVal, z, i - 1)
         + (IF values[i].t = "num" /\ zoneIndex(values[i].v, minVal, maxVal) = z
            THEN zoneDelta(values, timestamps, i) ELSE 0)

\* zone-time / total-time * 100, rounded to the nearest integer (half up);
\* 0 when no time is attributable
roundedPercent(time, totalTime) ==
    IF totalTime = 0 THEN 0 ELSE (200 * time + totalTime) \div (2 * totalTime)

\* the 0-based index of the first zone of maximal percent
largestZone(percents) ==
    (CHOOSE z \in 1..NumZones :
        /\ \A y \in 1..NumZones : percents[z] >= percents[y]
        /\ \A y \in 1..(z - 1) : percents[y] < percents[z]) - 1

\* a variant that leaves the rounded percentages as they are
adjustResidual_none(percents) == percents

\* "rounded such that the 5 percentages sum to exactly 100 (residual
\* adjustment on largest zone)"
adjustResidual(percents) ==
    LET total == percents[1] + percents[2] + percents[3] + percents[4] + percents[5]
        largest == largestZone(percents) + 1
    IN [percents EXCEPT ![largest] = @ + (100 - total)]

calculateZones(values, timestamps, metricName) ==
    LET valid == validValues(values)
    IN IF Len(valid) < MinZoneSamples THEN Null
       ELSE LET minVal == extremeOf(valid, -1)
                maxVal == extremeOf(valid, 1)
                times == [z \in 1..NumZones |->
                            zoneTime(values, timestamps, minVal, maxVal, z - 1, Len(values))]
                totalTime == times[1] + times[2] + times[3] + times[4] + times[5]
                percents == adjustResidual([z \in 1..NumZones |->
                                               roundedPercent(times[z], totalTime)])
            IN [zones |-> [z \in 1..NumZones |-> [time |-> times[z], percent |-> percents[z]]],
                dominantZone |-> largestZone(percents),
                metric |-> metricName,
                minVal |-> minVal,
                maxVal |-> maxVal]

----------------------------------------------------------------------------
(* Specification SpecZones: calculateZones on sampled metric series *)

MaxZoneSamples == 11

\* the value at index i of a sampled series: the base value or a value up to
\* 100 above it; the first two samples may be missing
ZoneValues(i) ==
    {Num(100), Num(100 + 25 * (i % 5))} \cup (IF i <= 2 THEN {Null} ELSE {})

RECURSIVE ZoneSeries(_)
\* all series of exactly n samples
ZoneSeries(n) ==
    IF n = 0 THEN {<<>>}
    ELSE {Append(s, v) : s \in ZoneSeries(n - 1), v \in ZoneValues(n)}

\* timestamp arrays for n samples: one per second; none at all; one per
\* second with a 3 s pause before index 4, a repeated instant at index 6 and
\* a missing stamp at index 8; and a 7 s pause before index 3
ZoneTimestamps(n) ==
    {[i \in 1..n |-> DateOf(1000 * i)],
     [i \in 1..n |-> Null],
     [i \in 1..n |-> IF i = 8 THEN Null
                     ELSE IF i = 6 THEN DateOf(7000)
                     ELSE IF i >= 4 THEN DateOf(1000 * i + 2000)
                     ELSE DateOf(1000 * i)],
     [i \in 1..n |-> IF i >= 3 THEN DateOf(1000 * i + 6000) ELSE DateOf(1000 * i)]}

ZoneCalls(n) ==
    {[fn |-> "calculateZones", values |-> v, timestamps |-> ts, metricName |-> "heartRate"] :
        v \in ZoneSeries(n), ts \in ZoneTimestamps(n)}

InitZones ==
    /\ pc = "call"
    /\ \E n \in (MinZoneSamples - 1)..MaxZoneSamples : args \in ZoneCalls(n)
    /\ ret = Null
    /\ AppIdle

CalculateZones ==
    /\ pc = "call" /\ args.fn = "calculateZones"
    /\ ret' = calculateZones(args.values, args.timestamps, args.metricName)
    /\ pc' = "return"
    /\ UNCHANGED <<args, appVars>>

NextZones == CalculateZones

SpecZones == InitZones /\ [][NextZones]_vars

PercentSum(zones) ==
    zones[1].percent + zones[2].percent + zones[3].percent + zones[4].percent
        + zones[5].percent

\* C23: calculateZones returns null when fewer than 10 values are non-null,
\* and otherwise exactly 5 zones whose percents are each >= 0 and add up to
\* exactly 100 (also when all values are equal or no time delta is
\* attributable), dominantZone being the index of a zone of maximal percent.
C23_ZonePercents ==
    Returned("calculateZones") =>
        IF Cardinality({k \in 1..Len(args.values) : args.values[k] # Null}) < 10
        THEN ret = Null
        ELSE /\ ret # Null
             /\ Len(ret.zones) = 5
             /\ \A z \in 1..5 : ret.zones[z].percent >= 0
             /\ PercentSum(ret.zones) = 100
             /\ ret.dominantZone \in 0..4
             /\ \A z \in 1..5 : ret.zones[ret.dominantZone + 1].percent >= ret.zones[z].percent

\* three zones share nine seconds evenly: 33 + 33 + 33 needs the residual
C23_Witness ==
    /\ Returned("calculateZones") /\ ret # Null
    /\ \E a, b, c \in 1..5 :
          /\ a < b /\ b < c
          /\ ret.zones[a].time = ret.zones[b].time /\ ret.zones[b].time = ret.zones[c].time
          /\ ret.zones[a].time > 0
          /\ ret.zones[a].time + ret.zones[b].time + ret.zones[c].time
               = ret.zones[1].time + ret.zones[2].time + ret.zones[3].time
                   + ret.zones[4].time + ret.zones[5].time
          /\ ret.zones[a].percent = 34 /\ ret.zones[b].percent = 33

----------------------------------------------------------------------------
(* Utils.calculateBestEfforts, as the specification's section 4.8 describes *)
(* it: for each target distance a window slides over the route by index.    *)
(* Indices are 1-based here; distances are in mm, durations in ms.           *)

\* the end of the window starting at startIdx: the first index from endIdx on
\* that lies at least targetKm beyond the start, or Len(distances) + 1
RECURSIVE windowEnd(_, _, _, _)
windowEnd(distances, startIdx, endIdx, targetKm) ==
    IF endIdx > Len(distances) THEN endIdx
    ELSE IF distances[endIdx] - distances[startIdx] >= targetKm THEN endIdx
    ELSE windowEnd(distances, startIdx, endIdx + 1, targetKm)

\* a window counts when both its ends are stamped and time has advanced
windowDuration(route, startIdx, endIdx) ==
    LET startTime == timestampAt(route, startIdx)
        endTime == timestampAt(route, endIdx)
    IN IF startTime.t = "date" /\ endTime.t = "date" /\ endTime.v > startTime.v
       THEN Num(endTime.v - startTime.v)
       ELSE Null

\* a variant that keeps the last window seen instead of the fastest
betterWindow_latest(duration, best) == duration # Null

\* the window replaces the best so far when it is strictly faster
betterWindow(duration, best) ==
    duration # Null /\ (best = Null \/ duration.v < best.duration)

RECURSIVE slideWindow(_, _, _, _, _, _)
\* the slide from startIdx on; endIdx never moves back; best is Null or the
\* fastest window so far
slideWindow(route, distances, targetKm, startIdx, endIdx, best) ==
    IF startIdx > Len(distances) THEN best
    ELSE LET end == windowEnd(distances, startIdx, Max(endIdx, startIdx), targetKm)
         IN IF end > Len(distances) THEN best
            ELSE LET duration == windowDuration(route, startIdx, end)
                 IN slideWindow(route, distances, targetKm, startIdx + 1, end,
                        IF betterWindow(duration, best)
                        THEN [startIdx |-> startIdx, endIdx |-> end, duration |-> duration.v]
                        ELSE best)

\* distances below 1 km are labelled in metres
getDistanceLabel(targetKm) == ToString(targetKm \div 1000) \o "m"

\* the effort reported for a target; the pace is in s/km, rounded down
effortOf(route, distances, targetKm, best) ==
    [distance |-> targetKm,
     distanceLabel |-> getDistanceLabel(targetKm),
     duration |-> best.duration,
     pace |-> (best.duration * 1000) \div targetKm,
     startKm |-> distances[best.startIdx],
     elevGain |-> calculateSplitElevGain(route, best.startIdx - 1, best.endIdx - 1)]

RECURSIVE effortLoop(_, _, _, _, _)
\* the loop over the target distances: targets beyond the route are skipped,
\* and so are targets for which no window counts
effortLoop(route, distances, targetDistances, k, efforts) ==
    IF k > Len(targetDistances) THEN efforts
    ELSE LET targetKm == targetDistances[k]
             best == IF targetKm > distances[Len(distances)] THEN Null
                     ELSE slideWindow(route, distances, targetKm, 1, 1, Null)
         IN effortLoop(route, distances, targetDistances, k + 1,
                IF best = Null THEN efforts
                ELSE Append(efforts, effortOf(route, distances, targetKm, best)))

calculateBestEfforts(route, targetDistances) ==
    IF "timestamps" \notin DOMAIN route \/ Len(route.coordinates) < 2 THEN <<>>
    ELSE effortLoop(route, cumulativeDistances(route.coordinates), targetDistances,
                    1, <<>>)

----------------------------------------------------------------------------
(* Specification SpecEfforts: calculateBestEfforts on sampled routes *)

\* the point at index i of a sampled route, 2.2 m after the point of index
\* i - 1 or on top of it; stamped 3 s or 4 s per index, stamped with an
\* instant before the start, or not stamped
EffortPoints(i) ==
    {[coord |-> Coord(lat), time |-> t] :
        lat \in {2 * (i - 1), 2 * Max(i - 2, 0)},
        t \in {Null, DateOf(3000 * i), DateOf(3000 * i + 1000)}
               \cup (IF i > 1 THEN {DateOf(500)} ELSE {})}

RECURSIVE EffortTracks(_)
EffortTracks(n) ==
    IF n = 1 THEN {<<p>> : p \in EffortPoints(1)}
    ELSE LET shorter == EffortTracks(n - 1)
         IN shorter \cup {Append(s, p) : s \in {q \in shorter : Len(q) = n - 1},
                                          p \in EffortPoints(n)}

\* target distance lists (mm): within, between and beyond the sampled routes
EffortTargets == {<<2000, 4000, 9000>>, <<2222>>, <<9000, 4444>>}

EffortCalls(n) ==
    {[fn |-> "calculateBestEfforts", route |-> RouteOf("run.gpx", tr),
      targetDistances |-> td] : tr \in EffortTracks(n), td \in EffortTargets}

InitEfforts ==
    /\ pc = "call"
    /\ args \in EffortCalls(MaxRoute)
    /\ ret = Null
    /\ AppIdle

CalculateBestEfforts ==
    /\ pc = "call" /\ args.fn = "calculateBestEfforts"
    /\ ret' = calculateBestEfforts(args.route, args.targetDistances)
    /\ pc' = "return"
    /\ UNCHANGED <<args, appVars>>

NextEfforts == CalculateBestEfforts

SpecEfforts == InitEfforts /\ [][NextEfforts]_vars

\* the stretches of exactly the target distance: from a stamped point i to the
\* first point at least targetKm further on, when that point is stamped later
StretchesOf(route, targetKm) ==
    LET N == Len(route.coordinates)
        d(i) == DistanceUpTo(route.coordinates, i)
    IN {w \in (1..N) \X (1..N) :
          /\ w[1] <= w[2]
          /\ d(w[2]) - d(w[1]) >= targetKm
          /\ \A j \in w[1]..(w[2] - 1) : d(j) - d(w[1]) < targetKm
          /\ route.timestamps[w[1]] # Null /\ route.timestamps[w[2]] # Null
          /\ route.timestamps[w[2]].v > route.timestamps[w[1]].v}

\* every pair of stamped points at least targetKm apart, the later stamped later
CoveringPairs(route, targetKm) ==
    LET N == Len(route.coordinates)
        d(i) == DistanceUpTo(route.coordinates, i)
    IN {w \in (1..N) \X (1..N) :
          /\ w[1] < w[2]
          /\ d(w[2]) - d(w[1]) >= targetKm
          /\ route.timestamps[w[1]] # Null /\ route.timestamps[w[2]] # Null
          /\ route.timestamps[w[2]].v > route.timestamps[w[1]].v}

ElapsedOver(route, w) == route.timestamps[w[2]].v - route.timestamps[w[1]].v

FullyStampedInOrder(route) ==
    /\ \A i \in 1..Len(route.timestamps) : route.timestamps[i] # Null
    /\ \A i \in 2..Len(route.timestamps) :
          route.timestamps[i].v >= route.timestamps[i - 1].v

\* C24: calculateBestEfforts returns at most one effort per target distance,
\* in target order, only for targets not exceeding the route's total
\* distance, and nothing for a route whose timestamps are all null; each
\* reported effort is the fastest stretch of its target distance: no other
\* stretch of that distance takes less time (and, on a fully stamped
\* chronological route, no pair of points that far apart does).
C24_BestEfforts ==
    Returned("calculateBestEfforts") =>
        LET route == args.route
            targets == args.targetDistances
            reported == {k \in 1..Len(targets) :
                            \E e \in 1..Len(ret) : ret[e].distance = targets[k]}
        IN /\ Len(ret) = Cardinality(reported)
           /\ \A e, f \in 1..Len(ret) :
                 e < f => \E k, l \in 1..Len(targets) :
                             k < l /\ targets[k] = ret[e].distance
                                   /\ targets[l] = ret[f].distance
           /\ \A e \in 1..Len(ret) : ret[e].distance <= RouteDistance(route)
           /\ (\A i \in 1..Len(route.timestamps) : route.timestamps[i] = Null) => ret = <<>>
           /\ \A e \in 1..Len(ret) :
                 /\ \E w \in StretchesOf(route, ret[e].distance) :
                       /\ ElapsedOver(route, w) = ret[e].duration
                       /\ DistanceUpTo(route.coordinates, w[1]) = ret[e].startKm
                 /\ \A w \in StretchesOf(route, ret[e].distance) :
                       ElapsedOver(route, w) >= ret[e].duration
                 /\ FullyStampedInOrder(route) =>
                       \A w \in CoveringPairs(route, ret[e].distance) :
                           ElapsedOver(route, w) >= ret[e].duration
           /\ \A k \in 1..Len(targets) :
                 (k \notin reported) =>
                    \/ targets[k] > RouteDistance(route)
                    \/ StretchesOf(route, targets[k]) = {}

\* a fully stamped route on which the fastest 2 m stretch is not the first
\* one, with one target reported and a target beyond the route skipped
C24_Witness ==
    /\ Returned("calculateBestEfforts")
    /\ FullyStampedInOrder(args.route)
    /\ args.targetDistances = <<2000, 4000, 9000>>
    /\ Len(ret) = 2
    /\ ret[1].distance = 2000 /\ ret[1].startKm > 0
    /\ Cardinality({ElapsedOver(args.route, w) : w \in StretchesOf(args.route, 2000)}) > 1

----------------------------------------------------------------------------
(* Claim about the locality of filterAccelerationSpikes (SpecClean) *)

\* the outputs for two inputs agree everywhere but at the 1-based indices k
\* and k + 1
AgreeBut(outA, outB, k) ==
    /\ Len(outA) = Len(outB)
    /\ \A i \in 1..Len(outA) : i \notin {k, k + 1} => outA[i] = outB[i]

\* C25: the output at index i depends only on speeds[i-1], speeds[i],
\* timestamps[i-1] and timestamps[i]: replacing the raw speed (or the whole
\* sample) at one index k changes the output at most at k and k + 1, so one
\* bad sample nulls at most two points and the rejection never cascades.
C25_SpikeLocality ==
    Returned("filterAccelerationSpikes") =>
        \A k \in 1..Len(args.speeds) :
            /\ \A sp \in {s.speed : s \in AccelSamples} :
                  AgreeBut(ret,
                           filterAccelerationSpikes([args.speeds EXCEPT ![k] = sp],
                                                    args.timestamps, args.maxAcceleration),
                           k)
            /\ \A s \in AccelSamples :
                  AgreeBut(ret,
                           filterAccelerationSpikes([args.speeds EXCEPT ![k] = s.speed],
                                                    [args.timestamps EXCEPT ![k] = s.time],
                                                    args.maxAcceleration),
                           k)

\* 1 km/h, then 35 km/h half a second later, then 35 km/h again: the jump is
\* nulled at index 1 only; had the first sample read 35 km/h, nothing would be
C25_Witness ==
    /\ Returned("filterAccelerationSpikes")
    /\ args.speeds = <<Num(1 * Milli), Num(35 * Milli), Num(35 * Milli)>>
    /\ args.timestamps = <<DateOf(1000), DateOf(1500), DateOf(1500)>>
    /\ ret = <<Num(1 * Milli), Null, Num(35 * Milli)>>
    /\ filterAccelerationSpikes([args.speeds EXCEPT ![1] = Num(35 * Milli)],
                                args.timestamps, args.maxAcceleration)
          = <<Num(35 * Milli), Num(35 * Milli), Num(35 * Milli)>>

----------------------------------------------------------------------------
(* Specification SpecSearch: getTimeAtDistance step by step.  While the      *)
(* search runs (pc = "search") ret holds the locals low and high, 0-based as *)
(* in the code; at the return it holds them together with the result.        *)

\* the early returns of getTimeAtDistance, or the start of the search with
\* low = 0 and high = map.distances.length - 1
EnterSearch ==
    /\ pc = "call" /\ args.fn = "getTimeAtDistance"
    /\ LET distances == args.map.distances
       IN IF Len(distances) < 2 \/ args.targetDistance > distances[Len(distances)]
          THEN pc' = "return" /\ ret' = [time |-> Null]
          ELSE IF args.targetDistance <= 0
          THEN pc' = "return" /\ ret' = [time |-> Num(0)]
          ELSE pc' = "search" /\ ret' = [low |-> 0, high |-> Len(distances) - 1]
    /\ UNCHANGED <<args, appVars>>

\* a variant that moves low on a strict comparison only
searchStep_strict(distances, targetDistance, low, high) ==
    LET mid == (low + high) \div 2
    IN IF distances[mid + 1] < targetDistance
       THEN [low |-> mid, high |-> high]
       ELSE [low |-> low, high |-> mid]

\* one iteration: mid = Math.floor((low + high) / 2), then low or high = mid
searchStep(distances, targetDistance, low, high) ==
    LET mid == (low + high) \div 2
    IN IF distances[mid + 1] <= targetDistance
       THEN [low |-> mid, high |-> high]
       ELSE [low |-> low, high |-> mid]

SearchStep ==
    /\ pc = "search" /\ ret.low < ret.high - 1
    /\ ret' = searchStep(args.map.distances, args.targetDistance, ret.low, ret.high)
    /\ UNCHANGED <<pc, args, appVars>>

\* the loop's exit and the interpolation between low and high
ExitSearch ==
    /\ pc = "search" /\ ~(ret.low < ret.high - 1)
    /\ LET map == args.map
           low == ret.low + 1
           high == ret.high + 1
       IN ret' = [low |-> ret.low, high |-> ret.high,
                  time |-> Num(interpolate(map.distances[low], map.distances[high],
                                           map.times[low], map.times[high],
                                           args.targetDistance))]
    /\ pc' = "return"
    /\ UNCHANGED <<args, appVars>>

InitSearch ==
    /\ pc = "call"
    /\ args \in GetTimeCalls(MaxRoute)
    /\ ret = Null
    /\ AppIdle

NextSearch ==
    \/ EnterSearch
    \/ SearchStep
    \/ ExitSearch

SpecSearch == InitSearch /\ [][NextSearch]_vars

\* the search is under way or has just ended
InSearch == pc = "search" \/ (pc = "return" /\ "low" \in DOMAIN ret)

SearchPrecondition ==
    /\ NonDecreasing(args.map.distances)
    /\ 0 < args.targetDistance
    /\ args.targetDistance <= args.map.distances[Len(args.map.distances)]

\* C26: for a map with non-decreasing distances and 0 < target <= last
\* distance the search ends with high = low + 1 and keeps, at loop entry,
\* after every iteration and at exit, distances[low] <= target < distances[high].
C26_SearchInvariant ==
    (InSearch /\ SearchPrecondition) =>
        /\ args.map.distances[ret.low + 1] <= args.targetDistance
        /\ args.targetDistance < args.map.distances[ret.high + 1]
        /\ pc = "return" => ret.high = ret.low + 1

\* C26, amended: the search ends with high = low + 1 and keeps
\* distances[low] <= target <= distances[high]; target < distances[high]
\* holds once high has moved, and throughout when target < last distance.
\* The result is the one the call returns as a whole.
C26_SearchBrackets ==
    /\ (InSearch /\ SearchPrecondition) =>
          LET d == args.map.distances
          IN /\ d[ret.low + 1] <= args.targetDistance
             /\ args.targetDistance <= d[ret.high + 1]
             /\ ret.low < ret.high
             /\ (ret.high < Len(d) - 1 \/ args.targetDistance < d[Len(d)]) =>
                   args.targetDistance < d[ret.high + 1]
             /\ pc = "return" => ret.high = ret.low + 1
    /\ pc = "return" => ret.time = getTimeAtDistance(args.map, args.targetDistance)

\* a search that has narrowed both ends and ended between two entries
C26_Witness ==
    /\ pc = "return" /\ "low" \in DOMAIN ret
    /\ SearchPrecondition
    /\ Len(args.map.distances) = 4
    /\ ret.low = 1 /\ ret.high = 2
    /\ args.map.distances[2] < args.targetDistance
    /\ args.targetDistance < args.map.distances[3]

----------------------------------------------------------------------------
(* FirebaseStorageManager.saveRoutes.  Elevations, speeds, paces and sensor  *)
(* values are in hundredths of their unit, so that rounding to one decimal   *)
(* is visible; coordinates are in 10^-5 degree, which rounding to six        *)
(* decimals leaves unchanged.                                                *)

\* if (totalPoints > 5000)
CompressionThreshold == 5000
\* compressionFactor = Math.ceil(totalPoints / 2500)
CompressedPoints == 2500

compressionFactorOf(totalPoints) ==
    IF totalPoints > CompressionThreshold
    THEN (totalPoints + CompressedPoints - 1) \div CompressedPoints
    ELSE 1

\* coordinates and Dates are objects, compared by identity; numbers and null
\* are compared by value
IsObject(x) == "t" \notin DOMAIN x \/ x.t \in {"date", "invalid_date"}

\* arr[i] !== arr[j] for the 1-based indices i and j of one array, each
\* element of which is an object of its own
notIdentical(arr, i, j) ==
    IF IsObject(arr[i]) \/ IsObject(arr[j]) THEN i # j
    ELSE IF arr[i] = NaN \/ arr[j] = NaN THEN TRUE
    ELSE arr[i] # arr[j]

\* the 1-based source indices compressArray keeps: every compressionFactor-th
\* from the first, and the last one when its value is not identical to the
\* last one kept
compressedIndices(arr, compressionFactor) ==
    IF Len(arr) = 0 THEN <<>>
    ELSE IF compressionFactor = 1 THEN [j \in 1..Len(arr) |-> j]
    ELSE LET n == (Len(arr) - 1) \div compressionFactor + 1
             lastKept == (n - 1) * compressionFactor + 1
         IN IF notIdentical(arr, lastKept, Len(arr))
            THEN [j \in 1..(n + 1) |->
                     IF j <= n THEN (j - 1) * compressionFactor + 1 ELSE Len(arr)]
            ELSE [j \in 1..n |-> (j - 1) * compressionFactor + 1]

compressArray(arr, compressionFactor) ==
    LET kept == compressedIndices(arr, compressionFactor)
    IN [j \in 1..Len(kept) |-> arr[kept[j]]]

\* Math.round(v * 10) / 10 on hundredths
roundTenth(v) == ((v + 5) \div 10) * 10

\* arr.map(v => v === null ? null : Math.round(v * 10) / 10)
roundArray(arr) ==
    [j \in 1..Len(arr) |-> IF arr[j].t = "num" THEN Num(roundTenth(arr[j].v))
                           ELSE IF arr[j] = Null THEN Null ELSE NaN]

\* Math.round(c.lat * 1000000) / 1000000
roundCoordinates(coords) ==
    [j \in 1..Len(coords) |-> [lat |-> coords[j].lat, lng |-> coords[j].lng]]

\* the sensor arrays are saved only when the route has them
optionalArrays(route, compressionFactor) ==
    [f \in {"heartRates", "cadences", "powers"} \cap DOMAIN route |->
        roundArray(compressArray(route[f], compressionFactor))]

\* the routeData built for one route (savedAt, the clock's reading, left out)
routeDataOf(route) ==
    LET totalPoints == Len(route.coordinates)
        compressionFactor == compressionFactorOf(totalPoints)
    IN [displayName |-> route.displayName,
        fileName |-> route.fileName,
        coordinates |-> roundCoordinates(compressArray(route.coordinates, compressionFactor)),
        elevations |-> roundArray(compressArray(route.elevations, compressionFactor)),
        speeds |-> roundArray(compressArray(route.speeds, compressionFactor)),
        paces |-> roundArray(compressArray(route.paces, compressionFactor)),
        timestamps |-> compressArray(route.timestamps, compressionFactor),
        sensors |-> optionalArrays(route, compressionFactor),
        compressionFactor |-> compressionFactor,
        originalPointCount |-> totalPoints]

----------------------------------------------------------------------------
(* Specification SpecSave: saveRoutes on routes around the compression       *)
(* threshold                                                                 *)

MaxSavePoints == 5003

\* a per-point series of n values: all missing, all the same, or rising
SeriesOf(pattern, n) ==
    [i \in 1..n |-> IF pattern = "null" THEN Null
                    ELSE IF pattern = "flat" THEN Num(10025)
                    ELSE Num(10000 + 7 * i)]

StampsOf(pattern, n) ==
    [i \in 1..n |-> IF pattern = "null" THEN Null ELSE DateOf(1000 * i)]

\* a route of n points whose per-point arrays all have n entries
SavedRoute(n, elev, speed, stamps, sensor) ==
    LET base == [displayName |-> "Morning run", fileName |-> "run.fit",
                 coordinates |-> [i \in 1..n |-> Coord(i)],
                 elevations |-> SeriesOf(elev, n),
                 speeds |-> SeriesOf(speed, n),
                 paces |-> SeriesOf(speed, n),
                 timestamps |-> StampsOf(stamps, n)]
    IN IF sensor = "none" THEN base
       ELSE [f \in DOMAIN base \cup {"heartRates", "cadences", "powers"} |->
                IF f \in DOMAIN base THEN base[f] ELSE SeriesOf(sensor, n)]

SaveCalls(n) ==
    {[fn |-> "saveRoutes", loggedIn |-> li,
      routes |-> <<SavedRoute(n, e, sp, st, se)>>] :
        li \in BOOLEAN, e \in {"flat", "ramp"}, sp \in {"null", "ramp"},
        st \in {"null", "dates"}, se \in {"none", "flat", "ramp"}}

InitSave ==
    /\ pc = "call"
    /\ \E n \in {3} \cup (CompressionThreshold..MaxSavePoints) : args \in SaveCalls(n)
    /\ ret = Null
    /\ AppIdle

\* not logged in: false.  Otherwise the session document is written and its
\* content returned here, or the write fails, an alert is shown and the
\* result is false.
SaveRoutes ==
    /\ pc = "call" /\ args.fn = "saveRoutes"
    /\ pc' = "return"
    /\ IF ~args.loggedIn
       THEN ret' = [saved |-> FALSE] /\ UNCHANGED alerts
       ELSE \/ /\ ret' = [saved |-> TRUE,
                          routes |-> [k \in 1..Len(args.routes) |-> routeDataOf(args.routes[k])],
                          routeCount |-> Len(args.routes)]
               /\ UNCHANGED alerts
            \/ /\ ret' = [saved |-> FALSE]
               /\ alerts' = Append(alerts, "Failed to save routes")
    /\ UNCHANGED <<args, files, fileIdx, routes, colorIndex>>

NextSave == SaveRoutes

SpecSave == InitSave /\ [][NextSave]_vars

\* the 1-based index of the original sample the saved coordinate j came from:
\* the sampled routes' point of index i lies at latitude i
OriginOf(route, data, j) == data.coordinates[j].lat.v

\* entry j of every saved array is the (rounded) value of the same sample
SameSample(route, data, j) ==
    LET i == OriginOf(route, data, j)
        rounded(v) == IF v.t = "num" THEN Num(roundTenth(v.v)) ELSE v
    IN /\ data.elevations[j] = rounded(route.elevations[i])
       /\ data.speeds[j] = rounded(route.speeds[i])
       /\ data.paces[j] = rounded(route.paces[i])
       /\ data.timestamps[j] = route.timestamps[i]
       /\ \A f \in DOMAIN data.sensors : data.sensors[f][j] = rounded(route[f][i])

\* C27: when a route of more than 5000 points is compressed for saving, its
\* per-point arrays, of equal length before, have equal length afterwards and
\* index j of each still refers to the same original sample, whatever values
\* the arrays hold (equal or null values at the last sampled and the final
\* index included).
C27_ArraysStayAligned ==
    (Returned("saveRoutes") /\ ret.saved) =>
        \A k \in 1..Len(ret.routes) :
            LET route == args.routes[k]
                data == ret.routes[k]
                n == Len(data.coordinates)
            IN Len(route.coordinates) > CompressionThreshold =>
                  /\ Len(data.elevations) = n /\ Len(data.speeds) = n
                  /\ Len(data.paces) = n /\ Len(data.timestamps) = n
                  /\ \A f \in DOMAIN data.sensors : Len(data.sensors[f]) = n
                  /\ \A j \in 1..n : SameSample(route, data, j)

\* ------------------------------------------------------------------
\* AnimationManager: route playback and race mode.
\*
\* Under SpecAnimation the variables hold
\*   args      the Route objects, by identity (they outlive their removal
\*             from the list while the manager or a callback refers to them)
\*   routes    RouteOverlayApp.routes, the identities of the listed routes
\*   ret       the AnimationManager's fields
\*   files     the callbacks handed to requestAnimationFrame and not yet run
\*             (callbacks for the same route do the same thing: a set)
\*   fileIdx   the clock, in seconds: Date.now() is fileIdx * 1000
\*   pc        "idle", or "TypeError" when the last handler dereferenced null
\*   alerts    the alert() messages shown so far
\* ------------------------------------------------------------------

AnimRouteIds == {1, 2, 3}

MaxTicks == 2
MaxAlerts == 1

\* the slider's two ends: 10^0 and 10^3
PlaybackSpeeds == {1, 1000}

newRoute(stamps, n) ==
    [timestamps |-> stamps,
     coordinates |-> [i \in 1..n |-> Coord(i)],
     isPlaying |-> FALSE,
     animationMarker |-> Null,
     animationState |-> Null]

newManager ==
    [playbackSpeed |-> 1, activeAnimations |-> {}, isRacing |-> FALSE, racingRoutes |-> Null]

ArrayOf(s) == [t |-> "array", v |-> s]

ElementsOf(s) == {s[i] : i \in 1..Len(s)}

\* the world a handler runs in and changes
World ==
    [heap |-> args, manager |-> ret, frames |-> files, list |-> routes,
     alerts |-> alerts, now |-> fileIdx * 1000, pc |-> "idle"]

\* timestamps.find(t => t !== null), undefined when there is none
firstValidTimestamp(timestamps) ==
    LET valid == {i \in 1..Len(timestamps) : timestamps[i] # Null}
    IN IF valid = {} THEN Undefined
       ELSE timestamps[CHOOSE i \in valid : \A j \in valid : i <= j]

\* the loop over the timestamps: the 0-based index of the last stamped point
\* reached at elapsedMs, scanning from index i up to the first later point
RECURSIVE targetIndexLoop(_, _, _, _, _)
targetIndexLoop(timestamps, startTimestamp, elapsedMs, i, targetIndex) ==
    IF i >= Len(timestamps) THEN targetIndex
    ELSE IF ~Falsy(timestamps[i + 1])
         THEN IF timestamps[i + 1].v - startTimestamp <= elapsedMs
              THEN targetIndexLoop(timestamps, startTimestamp, elapsedMs, i + 1, i)
              ELSE targetIndex
         ELSE targetIndexLoop(timestamps, startTimestamp, elapsedMs, i + 1, targetIndex)

findPositionAtTime(route, elapsedMs) ==
    LET first == firstValidTimestamp(route.timestamps)
    IN IF Falsy(first) THEN Len(route.coordinates)
       ELSE targetIndexLoop(route.timestamps, first.v, elapsedMs, 0, 0)

\* the marker after start's and startRace's "create or reset": on the map.
\* Its position is the map's affair; the index it was last moved to is
\* animationState.currentIndex.
shownMarker == [map |-> TRUE]

hiddenMarker(marker) == IF marker # Null THEN [marker EXCEPT !.map = FALSE] ELSE marker

\* what stop and stopRace do to one route
stoppedRoute(route) ==
    [route EXCEPT !.isPlaying = FALSE,
                  !.animationMarker = hiddenMarker(@),
                  !.animationState = Null]

\* what start and startRace do to one route
startedRoute(route, startTime) ==
    [route EXCEPT !.animationMarker = shownMarker,
                  !.isPlaying = TRUE,
                  !.animationState = [currentIndex |-> 0, startTime |-> startTime, pauseTime |-> 0]]

stop(w, r) ==
    [w EXCEPT !.heap[r] = stoppedRoute(@),
              !.manager.activeAnimations = @ \ {r}]

animate(w, r) ==
    LET route == w.heap[r]
        state == route.animationState
    IN IF ~route.isPlaying \/ state = Null THEN w
       ELSE LET elapsedMs == (w.now - state.startTime) * w.manager.playbackSpeed
                first == firstValidTimestamp(route.timestamps)
            IN IF Falsy(first) THEN stop(w, r)
               ELSE LET targetIndex == targetIndexLoop(route.timestamps, first.v, elapsedMs, 0, 0)
                    IN IF targetIndex < Len(route.coordinates)
                       THEN IF route.animationMarker = Null
                            THEN [w EXCEPT !.pc = "TypeError"]
                            ELSE [w EXCEPT !.heap[r].animationState.currentIndex = targetIndex,
                                           !.frames = @ \cup {[fn |-> "animate", route |-> r]}]
                       ELSE stop(w, r)

start(w, r) ==
    IF Len(w.heap[r].timestamps) = 0
    THEN [w EXCEPT !.alerts = Append(@, "No timestamp data available for animation")]
    ELSE animate([w EXCEPT !.heap[r] = startedRoute(@, w.now),
                           !.manager.activeAnimations = @ \cup {r}], r)

stopRace(w) ==
    LET racing == IF w.manager.racingRoutes = Null THEN {}
                  ELSE ElementsOf(w.manager.racingRoutes.v)
    IN [w EXCEPT !.heap = [r \in DOMAIN @ |-> IF r \in racing THEN stoppedRoute(@[r]) ELSE @[r]],
                 !.manager.isRacing = FALSE,
                 !.manager.racingRoutes = Null,
                 !.manager.activeAnimations = {}]

stopAll(w) ==
    IF w.manager.isRacing THEN stopRace(w)
    ELSE [w EXCEPT !.heap = [r \in DOMAIN @ |->
                                IF r \in w.manager.activeAnimations THEN stoppedRoute(@[r])
                                ELSE @[r]],
                   !.manager.activeAnimations = {}]

\* the forEach of animateRace from the i-th racing route on: the world and
\* allComplete after it, or the world at the TypeError that ended it
RECURSIVE raceLoop(_, _, _)
raceLoop(w, i, allComplete) ==
    LET racing == w.manager.racingRoutes.v
    IN IF i > Len(racing) THEN [w |-> w, allComplete |-> allComplete]
       ELSE LET r == racing[i]
                route == w.heap[r]
                state == route.animationState
            IN IF ~route.isPlaying THEN raceLoop(w, i + 1, allComplete)
               ELSE IF state = Null
               THEN [w |-> [w EXCEPT !.pc = "TypeError"], allComplete |-> allComplete]
               ELSE LET elapsedMs == (w.now - state.startTime) * w.manager.playbackSpeed
                        targetIndex == findPositionAtTime(route, elapsedMs)
                    IN IF targetIndex < Len(route.coordinates)
                       THEN IF route.animationMarker = Null
                            THEN [w |-> [w EXCEPT !.pc = "TypeError"], allComplete |-> allComplete]
                            ELSE raceLoop([w EXCEPT !.heap[r].animationState.currentIndex = targetIndex],
                                          i + 1, FALSE)
                       ELSE raceLoop([w EXCEPT !.heap[r].isPlaying = FALSE], i + 1, allComplete)

animateRace(w) ==
    IF ~w.manager.isRacing THEN w
    ELSE LET after == raceLoop(w, 1, TRUE)
         IN IF after.w.pc = "TypeError" THEN after.w
            ELSE IF ~after.allComplete
            THEN [after.w EXCEPT !.frames = @ \cup {[fn |-> "animateRace"]}]
            ELSE stopRace(after.w)

hasValidTimestamp(route) == \E i \in 1..Len(route.timestamps) : route.timestamps[i] # Null

startRace(w, selected) ==
    LET stopped == stopAll(w)
        isValid(r) == hasValidTimestamp(stopped.heap[r])
        validRoutes == SelectSeq(selected, isValid)
    IN IF Len(validRoutes) < 2
       THEN [stopped EXCEPT !.alerts = Append(@, "Need at least 2 routes with timestamp data to race")]
       ELSE animateRace(
                [stopped EXCEPT !.manager.isRacing = TRUE,
                                !.manager.racingRoutes = ArrayOf(validRoutes),
                                !.heap = [r \in DOMAIN @ |->
                                             IF r \in ElementsOf(validRoutes)
                                             THEN startedRoute(@[r], w.now) ELSE @[r]],
                                !.manager.activeAnimations = @ \cup ElementsOf(validRoutes)])

\* Route.destroy: the map objects and the animation state are dropped
destroy(route) == [route EXCEPT !.animationMarker = Null, !.animationState = Null]

removeRoute(w, r) ==
    IF r \in ElementsOf(w.list)
    THEN [w EXCEPT !.heap[r] = destroy(@),
                   !.list = SelectSeq(@, LAMBDA x : x # r)]
    ELSE w

\* the timestamps of the imported routes: fully stamped, stamped from the
\* second point on, present but all null, and absent
AnimStamps ==
    {<<DateOf(0), DateOf(1000)>>,
     <<Null, DateOf(500), DateOf(1500)>>,
     <<Null, Null>>,
     <<>>}

AnimRoutes == {newRoute(stamps, Max(Len(stamps), 2)) : stamps \in AnimStamps}

\* three routes are listed and nothing plays: a fully stamped route, one
\* stamped from its second point on, and a third that is fully stamped, all
\* null or without timestamps
InitAnimation ==
    /\ pc = "idle"
    /\ args \in [AnimRouteIds -> AnimRoutes]
    /\ args[1].timestamps = <<DateOf(0), DateOf(1000)>>
    /\ args[2].timestamps = <<Null, DateOf(500), DateOf(1500)>>
    /\ args[3].timestamps # args[2].timestamps
    /\ ret = newManager
    /\ files = {}
    /\ fileIdx = 0
    /\ routes = <<1, 2, 3>>
    /\ colorIndex = 0
    /\ alerts = <<>>

\* the handler's world becomes the state; a handler that would show one
\* alert more than MaxAlerts is not run
Commit(w) ==
    /\ Len(w.alerts) <= MaxAlerts
    /\ pc' = w.pc
    /\ args' = w.heap
    /\ ret' = w.manager
    /\ files' = w.frames
    /\ routes' = w.list
    /\ alerts' = w.alerts
    /\ UNCHANGED <<fileIdx, colorIndex>>

\* the play button, which a listed route with a valid timestamp has, while
\* the route is not playing
Start(r) ==
    /\ r \in ElementsOf(routes)
    /\ hasValidTimestamp(args[r])
    /\ ~args[r].isPlaying
    /\ Commit(start(World, r))

\* the same button while the route is playing
Stop(r) ==
    /\ r \in ElementsOf(routes)
    /\ hasValidTimestamp(args[r])
    /\ args[r].isPlaying
    /\ Commit(stop(World, r))

StartRace ==
    \E chosen \in SUBSET ElementsOf(routes) :
        Commit(startRace(World, SelectSeq(routes, LAMBDA r : r \in chosen)))

StopRace == Commit(stopRace(World))

StopAll == Commit(stopAll(World))

RemoveRoute(r) ==
    /\ r \in ElementsOf(routes)
    /\ Commit(removeRoute(World, r))

\* a pending animate callback runs
AnimateFrame(r) ==
    /\ [fn |-> "animate", route |-> r] \in files
    /\ Commit(animate([World EXCEPT !.frames = @ \ {[fn |-> "animate", route |-> r]}], r))

\* the pending animateRace callback runs
AnimateRaceFrame ==
    /\ [fn |-> "animateRace"] \in files
    /\ Commit(animateRace([World EXCEPT !.frames = @ \ {[fn |-> "animateRace"]}]))

\* the speed slider is moved
SetSpeed ==
    /\ \E speed \in PlaybackSpeeds \ {ret.playbackSpeed} :
          ret' = [ret EXCEPT !.playbackSpeed = speed]
    /\ UNCHANGED <<pc, args, files, fileIdx, routes, colorIndex, alerts>>

\* time passes
Tick ==
    /\ fileIdx < MaxTicks
    /\ fileIdx' = fileIdx + 1
    /\ UNCHANGED <<pc, args, ret, files, routes, colorIndex, alerts>>

NextAnimation ==
    \/ \E r \in AnimRouteIds : Start(r)
    \/ \E r \in AnimRouteIds : Stop(r)
    \/ StartRace
    \/ StopRace
    \/ StopAll
    \/ \E r \in AnimRouteIds : RemoveRoute(r)
    \/ \E r \in AnimRouteIds : AnimateFrame(r)
    \/ AnimateRaceFrame
    \/ SetSpeed
    \/ Tick

SpecAnimation == InitAnimation /\ [][NextAnimation]_vars


\* C29: under every interleaving of start, stop, startRace, stopRace/stopAll
\* and removeRoute with the pending animate and animateRace callbacks, a
\* route that is playing has an animation state and an animation marker, no
\* callback dereferences null, and a removed route is neither playing nor
\* among the active animations.
C29_PlayingHasState ==
    /\ pc # "TypeError"
    /\ \A r \in AnimRouteIds :
          /\ args[r].isPlaying =>
                args[r].animationState # Null /\ args[r].animationMarker # Null
          /\ r \notin ElementsOf(routes) =>
                ~args[r].isPlaying /\ r \notin ret.activeAnimations

\* the time between the first and the last stamped point of a route
LastPointTime(route) ==
    LET valid == {i \in 1..Len(route.timestamps) : route.timestamps[i] # Null}
        last == CHOOSE i \in valid : \A j \in valid : j <= i
    IN route.timestamps[last].v - firstValidTimestamp(route.timestamps).v

\* the route is playing and its scaled elapsed time is beyond its last timestamp
PastTheEnd(r) ==
    /\ args[r].isPlaying
    /\ args[r].animationState # Null
    /\ hasValidTimestamp(args[r])
    /\ (fileIdx * 1000 - args[r].animationState.startTime) * ret.playbackSpeed
          > LastPointTime(args[r])

\* C30: a started playback finishes on its own: an animate callback that runs
\* once the scaled elapsed time exceeds the route's last timestamp stops the
\* route (not playing, no longer an active animation), and an animateRace
\* callback that runs once every route still racing is beyond its last
\* timestamp ends the race.
C30_PlaybackFinishes ==
    [][/\ \A r \in AnimRouteIds :
             (PastTheEnd(r) /\ AnimateFrame(r)) =>
                 (~args'[r].isPlaying /\ r \notin ret'.activeAnimations)
       /\ (/\ ret.isRacing
           /\ \A r \in ElementsOf(ret.racingRoutes.v) : args[r].isPlaying => PastTheEnd(r)
           /\ AnimateRaceFrame) =>
              (/\ ~ret'.isRacing
               /\ \A r \in ElementsOf(ret.racingRoutes.v) : ~args'[r].isPlaying)]_vars

====
